---- MODULE Spec2Model ----
(***************************************************************************)
(* plancritic: the `check` command (cmd/plancritic/check.go, runCheck) and *)
(* the review post-processing it drives (internal/review, internal/schema, *)
(* internal/prompt).  Text is modelled by strings, Go slices by sequences  *)
(* (index 1 here is index 0 there), Go structs by records.                 *)
(***************************************************************************)
EXTENDS Integers, Sequences, FiniteSets, TLC

VARIABLES
    flags,            \* checkFlags: strict, severityThreshold, format, out, patchOut
    planLines,        \* len(p.Lines) of the loaded plan
    pc,               \* position inside runCheck
    calls,            \* number of provider.Generate invocations so far
    prompts,          \* the prompts handed to provider.Generate, in order
    result,           \* raw text of the first provider response
    repairResult,     \* raw text of the repair response
    rev,              \* the review.Review being processed
    validationErrs,   \* schema.Validate of the first response
    rev2,             \* the review parsed from the repair response
    validationErrs2,  \* schema.Validate of the repair response
    exitCode,         \* process exit code; Running while runCheck has not returned
    errMsg,           \* the message of the returned exitErr
    stderr,           \* validation errors printed to stderr
    stdout,           \* what was printed to stdout
    outFile,          \* what was written to the --out file
    patchFile,        \* what was written to the --patch-out file
    call              \* a call of a library function by itself: arguments and result

vars == <<flags, planLines, pc, calls, prompts, result, repairResult, rev, rev2,
          validationErrs, validationErrs2, exitCode, errMsg, stderr, stdout,
          outFile, patchFile, call>>

-----------------------------------------------------------------------------
(* internal/review/enums.go *)

VerdictExecutable == "EXECUTABLE_AS_IS"
VerdictWithClarifications == "EXECUTABLE_WITH_CLARIFICATIONS"
VerdictNotExecutable == "NOT_EXECUTABLE"

SeverityInfo == "INFO"
SeverityWarn == "WARN"
SeverityCritical == "CRITICAL"

CategoryContradiction == "CONTRADICTION"
CategoryAmbiguity == "AMBIGUITY"

PatchTypePlanTextEdit == "PLAN_TEXT_EDIT"

VerdictValid(v) ==
    v \in {VerdictExecutable, VerdictWithClarifications, VerdictNotExecutable}

SeverityValid(s) == s \in {SeverityInfo, SeverityWarn, SeverityCritical}

\* Severity.order: the sort key, lower = higher priority.
SeverityRank(s) ==
    CASE s = SeverityCritical -> 0
      [] s = SeverityWarn -> 1
      [] s = SeverityInfo -> 2
      [] OTHER -> 3

CategoryValid(c) ==
    c \in {CategoryContradiction, CategoryAmbiguity, "MISSING_PREREQUISITE",
           "MISSING_ACCEPTANCE_CRITERIA", "RISK_SECURITY", "RISK_DATA",
           "RISK_OPERATIONS", "TEST_GAP", "SCOPE_CREEP_RISK", "UNREALISTIC_STEP",
           "ORDERING_DEPENDENCY", "UNSPECIFIED_INTERFACE", "NON_DETERMINISM"}

PatchTypeValid(p) == p = PatchTypePlanTextEdit

-----------------------------------------------------------------------------
(* Go slices *)

\* append(acc, xs...) over the iterations of a loop, in iteration order.
RECURSIVE Flatten(_)
Flatten(ss) ==
    IF Len(ss) = 0 THEN <<>>
    ELSE IF Len(ss) = 1 THEN ss[1]
    ELSE LET h == Len(ss) \div 2
         IN Flatten(SubSeq(ss, 1, h)) \o Flatten(SubSeq(ss, h + 1, Len(ss)))

-----------------------------------------------------------------------------
(* internal/review/score.go, summary.go *)

CountSeverity(issues, sev) ==
    Cardinality({i \in 1..Len(issues) : issues[i].Severity = sev})

\* The switch of ComputeScore: what one issue takes off the score.
Penalty(sev) ==
    CASE sev = SeverityCritical -> 20
      [] sev = SeverityWarn -> 7
      [] sev = SeverityInfo -> 2
      [] OTHER -> 0

\* What the issues take off together, added up half by half.
RECURSIVE SumPenalties(_)
SumPenalties(issues) ==
    IF Len(issues) = 0 THEN 0
    ELSE IF Len(issues) = 1 THEN Penalty(issues[1].Severity)
    ELSE LET h == Len(issues) \div 2
         IN SumPenalties(SubSeq(issues, 1, h))
            + SumPenalties(SubSeq(issues, h + 1, Len(issues)))

\* The loop of ComputeScore over issues, entered with the running score.
ScoreLoop(issues, score) == score - SumPenalties(issues)

\* The score that is not clamped at 0.
ComputeScore_NoClamp(issues) == ScoreLoop(issues, 100)

ComputeScore(issues) ==
    LET score == ScoreLoop(issues, 100)
    IN IF score < 0 THEN 0 ELSE score

\* The summary whose verdict takes any blocking issue for a blocker.
ComputeSummary_AnyBlocking(issues) ==
    LET crit == CountSeverity(issues, SeverityCritical)
        warn == CountSeverity(issues, SeverityWarn)
        info == CountSeverity(issues, SeverityInfo)
        hasBlocking == \E i \in 1..Len(issues) : issues[i].Blocking
        verdict == IF hasBlocking THEN VerdictNotExecutable
                   ELSE IF crit > 0 \/ warn > 0 THEN VerdictWithClarifications
                   ELSE VerdictExecutable
    IN [Verdict |-> verdict, Score |-> ComputeScore(issues),
        CriticalCount |-> crit, WarnCount |-> warn, InfoCount |-> info]

ComputeSummary(issues) ==
    LET crit == CountSeverity(issues, SeverityCritical)
        warn == CountSeverity(issues, SeverityWarn)
        info == CountSeverity(issues, SeverityInfo)
        hasBlockingCritical ==
            \E i \in 1..Len(issues) :
                issues[i].Severity = SeverityCritical /\ issues[i].Blocking
        verdict == IF hasBlockingCritical THEN VerdictNotExecutable
                   ELSE IF crit > 0 \/ warn > 0 THEN VerdictWithClarifications
                   ELSE VerdictExecutable
    IN [Verdict |-> verdict, Score |-> ComputeScore(issues),
        CriticalCount |-> crit, WarnCount |-> warn, InfoCount |-> info]

-----------------------------------------------------------------------------
(* internal/review/sort.go *)

firstLine(ev) == IF Len(ev) = 0 THEN 0 ELSE ev[1].LineStart

\* The less function that compares the severity only.
SortLess_SeverityOnly(a, b) == SeverityRank(a.Severity) < SeverityRank(b.Severity)

\* The less function handed to sort.SliceStable, for issues and questions.
SortLess(a, b) ==
    LET oa == SeverityRank(a.Severity)
        ob == SeverityRank(b.Severity)
    IN IF oa # ob THEN oa < ob
       ELSE firstLine(a.Evidence) < firstLine(b.Evidence)

\* sort.SliceStable(xs, less): the elements that less does not order form
\* classes; the classes come in increasing order, each in the order of xs.
SliceStable(xs) ==
    LET n == Len(xs)
        Equal(i, j) == ~SortLess(xs[i], xs[j]) /\ ~SortLess(xs[j], xs[i])
        firsts == {i \in 1..n : \A j \in 1..(i - 1) : ~Equal(i, j)}
        class(p) == CHOOSE i \in firsts :
                        Cardinality({j \in firsts : SortLess(xs[j], xs[i])}) = p - 1
        members(i) == Flatten([j \in 1..n |-> IF Equal(i, j) THEN <<xs[j]>> ELSE <<>>])
    IN Flatten([p \in 1..Cardinality(firsts) |-> members(class(p))])

SortIssues(issues) == SliceStable(issues)

SortQuestions(questions) == SliceStable(questions)

-----------------------------------------------------------------------------
(* internal/review/truncate.go *)

DefaultMaxIssues == 50
DefaultMaxQuestions == 20

TruncIssue ==
    [ID |-> "ISSUE-TRUNC", Severity |-> SeverityWarn, Category |-> CategoryAmbiguity,
     Title |-> "Output truncated",
     Description |-> "The number of issues or questions exceeded the configured limits. Increase limits to see all results.",
     Evidence |-> <<[Source |-> "plan", Path |-> "plan", LineStart |-> 1,
                     LineEnd |-> 1, Quote |-> "(truncation notice)"]>>,
     Impact |-> "", Recommendation |-> "Re-run with higher limits.",
     Blocking |-> FALSE, Tags |-> <<>>]

\* Truncate that keeps maxIssues issues in front of the notice.
Truncate_NoReserve(r, maxIssuesArg, maxQuestionsArg) ==
    LET maxIssues == IF maxIssuesArg <= 0 THEN DefaultMaxIssues ELSE maxIssuesArg
        maxQuestions == IF maxQuestionsArg <= 0 THEN DefaultMaxQuestions
                        ELSE maxQuestionsArg
        cutIssues == Len(r.Issues) > maxIssues
        cutQuestions == Len(r.Questions) > maxQuestions
        issues1 == IF cutIssues THEN SubSeq(r.Issues, 1, maxIssues) ELSE r.Issues
        questions1 == IF cutQuestions THEN SubSeq(r.Questions, 1, maxQuestions)
                      ELSE r.Questions
        truncated == cutIssues \/ cutQuestions
    IN [r EXCEPT !.Issues = IF truncated THEN Append(issues1, TruncIssue) ELSE issues1,
                 !.Questions = questions1]

Truncate(r, maxIssuesArg, maxQuestionsArg) ==
    LET maxIssues == IF maxIssuesArg <= 0 THEN DefaultMaxIssues ELSE maxIssuesArg
        maxQuestions == IF maxQuestionsArg <= 0 THEN DefaultMaxQuestions
                        ELSE maxQuestionsArg
        cutIssues == Len(r.Issues) > maxIssues
        cutQuestions == Len(r.Questions) > maxQuestions
        issues1 == IF cutIssues THEN SubSeq(r.Issues, 1, maxIssues - 1) ELSE r.Issues
        questions1 == IF cutQuestions THEN SubSeq(r.Questions, 1, maxQuestions)
                      ELSE r.Questions
        truncated == cutIssues \/ cutQuestions
    IN [r EXCEPT !.Issues = IF truncated THEN Append(issues1, TruncIssue) ELSE issues1,
                 !.Questions = questions1]

-----------------------------------------------------------------------------
(* internal/review/grounding.go *)

fabricationPhrases ==
    <<"the codebase uses", "the repository contains", "the existing implementation",
      "currently the system", "as seen in the source", "the project's",
      "the current codebase", "looking at the code", "in the source code",
      "the existing code">>

UpperChars == <<"A","B","C","D","E","F","G","H","I","J","K","L","M",
                "N","O","P","Q","R","S","T","U","V","W","X","Y","Z">>
LowerChars == <<"a","b","c","d","e","f","g","h","i","j","k","l","m",
                "n","o","p","q","r","s","t","u","v","w","x","y","z">>

UpperToLower ==
    [c \in {UpperChars[k] : k \in 1..Len(UpperChars)} |->
        LowerChars[CHOOSE k \in 1..Len(UpperChars) : UpperChars[k] = c]]

LowerChar(c) == IF c \in DOMAIN UpperToLower THEN UpperToLower[c] ELSE c

\* strings.ToLower
RECURSIVE ToLower(_)
ToLower(s) ==
    IF Len(s) = 0 THEN ""
    ELSE IF Len(s) = 1 THEN LowerChar(s)
    ELSE LET h == Len(s) \div 2
         IN ToLower(SubSeq(s, 1, h)) \o ToLower(SubSeq(s, h + 1, Len(s)))

\* strings.Contains
Contains(s, sub) ==
    \E i \in 1..(Len(s) - Len(sub) + 1) : SubSeq(s, i, i + Len(sub) - 1) = sub

\* The violations one text field contributes, in phrase order.
FieldViolations(id, name, lower) ==
    LET Found(phrase) == Contains(lower, phrase)
        found == SelectSeq(fabricationPhrases, Found)
    IN [k \in 1..Len(found) |-> [IssueID |-> id, Field |-> name, Phrase |-> found[k]]]

IssueViolations(iss) ==
    FieldViolations(iss.ID, "description", ToLower(iss.Description))
    \o FieldViolations(iss.ID, "impact", ToLower(iss.Impact))
    \o FieldViolations(iss.ID, "recommendation", ToLower(iss.Recommendation))

QuestionViolations(q) ==
    FieldViolations(q.ID, "question", ToLower(q.Question))
    \o FieldViolations(q.ID, "why_needed", ToLower(q.WhyNeeded))

CheckGrounding(r) ==
    Flatten([i \in 1..Len(r.Issues) |-> IssueViolations(r.Issues[i])])
    \o Flatten([i \in 1..Len(r.Questions) |-> QuestionViolations(r.Questions[i])])

\* The tag lookup that never finds the tag.
HasTag_Never(tags, t) == FALSE

HasTag(tags, t) == \E k \in 1..Len(tags) : tags[k] = t

\* issueMap[id]: the index of the last issue carrying the ID (later entries
\* overwrite earlier ones); 0 when no issue carries it.
IssueMapIndex(issues, id) ==
    IF \E i \in 1..Len(issues) : issues[i].ID = id
    THEN CHOOSE i \in 1..Len(issues) :
            /\ issues[i].ID = id
            /\ \A j \in (i + 1)..Len(issues) : issues[j].ID # id
    ELSE 0

\* The downgrade that only tags.
DowngradeIssue_TagOnly(iss) ==
    [iss EXCEPT !.Tags = IF HasTag(iss.Tags, "UNVERIFIED") THEN @
                         ELSE Append(@, "UNVERIFIED")]

DowngradeIssue(iss) ==
    [iss EXCEPT !.Tags = IF HasTag(iss.Tags, "UNVERIFIED") THEN @
                         ELSE Append(@, "UNVERIFIED"),
                !.Severity = IF @ = SeverityCritical THEN SeverityWarn ELSE @]

RECURSIVE DowngradeLoop(_, _, _)
DowngradeLoop(issues, violations, downgraded) ==
    IF violations = <<>> THEN issues
    ELSE LET id == Head(violations).IssueID
             idx == IssueMapIndex(issues, id)
         IN IF idx = 0 \/ id \in downgraded
            THEN DowngradeLoop(issues, Tail(violations), downgraded)
            ELSE DowngradeLoop([issues EXCEPT ![idx] = DowngradeIssue(@)],
                               Tail(violations), downgraded \cup {id})

\* The downgrade that lowers a processed issue by one level whatever it was.
ApplyGroundingDowngrades_Demote(r, violations) ==
    [r EXCEPT !.Issues =
        [i \in 1..Len(r.Issues) |->
            IF /\ \E k \in 1..Len(violations) : violations[k].IssueID = r.Issues[i].ID
               /\ IssueMapIndex(r.Issues, r.Issues[i].ID) = i
            THEN [DowngradeIssue(r.Issues[i]) EXCEPT
                    !.Severity = IF r.Issues[i].Severity = SeverityCritical
                                 THEN SeverityWarn ELSE SeverityInfo]
            ELSE r.Issues[i]]]

ApplyGroundingDowngrades(r, violations) ==
    [r EXCEPT !.Issues = DowngradeLoop(@, violations, {})]

-----------------------------------------------------------------------------
(* internal/schema/validate.go *)

Quoted(s) == "\"" \o s \o "\""

VErr(path, message) == [Path |-> path, Message |-> message]

\* validateEvidence without the check of the quote.
validateEvidence_NoQuote(prefix, ev, planLineCount) ==
    (IF ev.Source # "plan" /\ ev.Source # "context"
     THEN <<VErr(prefix \o ".source",
                 "must be 'plan' or 'context', got " \o Quoted(ev.Source))>>
     ELSE <<>>)
    \o (IF ev.Path = "" THEN <<VErr(prefix \o ".path", "required")>> ELSE <<>>)
    \o (IF ev.LineStart < 1 THEN <<VErr(prefix \o ".line_start", "must be >= 1")>>
        ELSE <<>>)
    \o (IF ev.LineEnd < ev.LineStart
        THEN <<VErr(prefix \o ".line_end", "must be >= line_start")>> ELSE <<>>)
    \o (IF planLineCount > 0 /\ ev.Source = "plan" /\ ev.LineEnd > planLineCount
        THEN <<VErr(prefix \o ".line_end",
                    "exceeds plan line count (" \o ToString(planLineCount) \o ")")>>
        ELSE <<>>)

validateEvidence(prefix, ev, planLineCount) ==
    (IF ev.Source # "plan" /\ ev.Source # "context"
     THEN <<VErr(prefix \o ".source",
                 "must be 'plan' or 'context', got " \o Quoted(ev.Source))>>
     ELSE <<>>)
    \o (IF ev.Path = "" THEN <<VErr(prefix \o ".path", "required")>> ELSE <<>>)
    \o (IF ev.LineStart < 1 THEN <<VErr(prefix \o ".line_start", "must be >= 1")>>
        ELSE <<>>)
    \o (IF ev.LineEnd < ev.LineStart
        THEN <<VErr(prefix \o ".line_end", "must be >= line_start")>> ELSE <<>>)
    \o (IF planLineCount > 0 /\ ev.Source = "plan" /\ ev.LineEnd > planLineCount
        THEN <<VErr(prefix \o ".line_end",
                    "exceeds plan line count (" \o ToString(planLineCount) \o ")")>>
        ELSE <<>>)
    \o (IF ev.Quote = "" THEN <<VErr(prefix \o ".quote", "required")>> ELSE <<>>)

\* The evidence loop that hands no plan length on.
ValidateEvidenceList_NoPlan(prefix, evs, planLineCount) ==
    Flatten([j \in 1..Len(evs) |->
        validateEvidence(prefix \o ".evidence[" \o ToString(j - 1) \o "]", evs[j], 0)])

ValidateEvidenceList(prefix, evs, planLineCount) ==
    Flatten([j \in 1..Len(evs) |->
        validateEvidence(prefix \o ".evidence[" \o ToString(j - 1) \o "]",
                         evs[j], planLineCount)])

\* The ID map that holds the IDs of all other entries.
SeenBefore_Others(xs, i) == {xs[k].ID : k \in (1..Len(xs)) \ {i}} \ {""}

\* issueIDs / questionIDs when iteration i starts: the non-empty IDs of the
\* earlier entries.
SeenBefore(xs, i) == {xs[k].ID : k \in 1..(i - 1)} \ {""}

\* The ID check shared by the issue and the question loop: seen is the map of
\* IDs recorded by the earlier iterations.
ValidateID(prefix, id, seen) ==
    IF id = "" THEN <<VErr(prefix \o ".id", "required")>>
    ELSE IF id \in seen
         THEN <<VErr(prefix \o ".id", "duplicate ID: " \o Quoted(id))>>
         ELSE <<>>

ValidateIssue(prefix, iss, seen, planLineCount) ==
    ValidateID(prefix, iss.ID, seen)
    \o (IF ~SeverityValid(iss.Severity)
        THEN <<VErr(prefix \o ".severity", "invalid: " \o Quoted(iss.Severity))>>
        ELSE <<>>)
    \o (IF ~CategoryValid(iss.Category)
        THEN <<VErr(prefix \o ".category", "invalid: " \o Quoted(iss.Category))>>
        ELSE <<>>)
    \o (IF iss.Title = "" THEN <<VErr(prefix \o ".title", "required")>> ELSE <<>>)
    \o (IF iss.Description = "" THEN <<VErr(prefix \o ".description", "required")>>
        ELSE <<>>)
    \o (IF Len(iss.Evidence) = 0
        THEN <<VErr(prefix \o ".evidence", "at least one evidence entry required")>>
        ELSE <<>>)
    \o ValidateEvidenceList(prefix, iss.Evidence, planLineCount)

ValidateIssues(issues, planLineCount) ==
    Flatten([i \in 1..Len(issues) |->
        ValidateIssue("issues[" \o ToString(i - 1) \o "]", issues[i],
                      SeenBefore(issues, i), planLineCount)])

ValidateQuestion(prefix, q, seen, planLineCount) ==
    ValidateID(prefix, q.ID, seen)
    \o (IF ~SeverityValid(q.Severity)
        THEN <<VErr(prefix \o ".severity", "invalid: " \o Quoted(q.Severity))>>
        ELSE <<>>)
    \o (IF q.Question = "" THEN <<VErr(prefix \o ".question", "required")>> ELSE <<>>)
    \o (IF q.WhyNeeded = "" THEN <<VErr(prefix \o ".why_needed", "required")>>
        ELSE <<>>)
    \o (IF Len(q.Evidence) = 0
        THEN <<VErr(prefix \o ".evidence", "at least one evidence entry required")>>
        ELSE <<>>)
    \o ValidateEvidenceList(prefix, q.Evidence, planLineCount)

ValidateQuestions(questions, planLineCount) ==
    Flatten([i \in 1..Len(questions) |->
        ValidateQuestion("questions[" \o ToString(i - 1) \o "]", questions[i],
                         SeenBefore(questions, i), planLineCount)])

ValidatePatch(prefix, p) ==
    (IF p.ID = "" THEN <<VErr(prefix \o ".id", "required")>> ELSE <<>>)
    \o (IF ~PatchTypeValid(p.Type)
        THEN <<VErr(prefix \o ".type", "invalid: " \o Quoted(p.Type))>> ELSE <<>>)
    \o (IF p.Title = "" THEN <<VErr(prefix \o ".title", "required")>> ELSE <<>>)
    \o (IF p.DiffUnified = "" THEN <<VErr(prefix \o ".diff_unified", "required")>>
        ELSE <<>>)

ValidatePatches(patches) ==
    Flatten([i \in 1..Len(patches) |->
        ValidatePatch("patches[" \o ToString(i - 1) \o "]", patches[i])])

\* The summary check without the check of the INFO count.
ValidateSummary_NoInfo(r) ==
    LET expected == ComputeScore(r.Issues)
        crit == CountSeverity(r.Issues, SeverityCritical)
        warn == CountSeverity(r.Issues, SeverityWarn)
    IN (IF r.Summary.Score # expected
        THEN <<VErr("summary.score",
                    "score " \o ToString(r.Summary.Score)
                    \o " does not match computed " \o ToString(expected))>>
        ELSE <<>>)
       \o (IF r.Summary.CriticalCount # crit
           THEN <<VErr("summary.critical_count",
                       "expected " \o ToString(crit) \o ", got "
                       \o ToString(r.Summary.CriticalCount))>>
           ELSE <<>>)
       \o (IF r.Summary.WarnCount # warn
           THEN <<VErr("summary.warn_count",
                       "expected " \o ToString(warn) \o ", got "
                       \o ToString(r.Summary.WarnCount))>>
           ELSE <<>>)

ValidateSummary(r) ==
    LET expected == ComputeScore(r.Issues)
        crit == CountSeverity(r.Issues, SeverityCritical)
        warn == CountSeverity(r.Issues, SeverityWarn)
        info == CountSeverity(r.Issues, SeverityInfo)
    IN (IF r.Summary.Score # expected
        THEN <<VErr("summary.score",
                    "score " \o ToString(r.Summary.Score)
                    \o " does not match computed " \o ToString(expected))>>
        ELSE <<>>)
       \o (IF r.Summary.CriticalCount # crit
           THEN <<VErr("summary.critical_count",
                       "expected " \o ToString(crit) \o ", got "
                       \o ToString(r.Summary.CriticalCount))>>
           ELSE <<>>)
       \o (IF r.Summary.WarnCount # warn
           THEN <<VErr("summary.warn_count",
                       "expected " \o ToString(warn) \o ", got "
                       \o ToString(r.Summary.WarnCount))>>
           ELSE <<>>)
       \o (IF r.Summary.InfoCount # info
           THEN <<VErr("summary.info_count",
                       "expected " \o ToString(info) \o ", got "
                       \o ToString(r.Summary.InfoCount))>>
           ELSE <<>>)

Validate(r, planLineCount) ==
    (IF r.Tool = "" THEN <<VErr("tool", "required")>> ELSE <<>>)
    \o (IF r.Version = "" THEN <<VErr("version", "required")>> ELSE <<>>)
    \o (IF ~VerdictValid(r.Summary.Verdict)
        THEN <<VErr("summary.verdict",
                    "invalid verdict: " \o Quoted(r.Summary.Verdict))>>
        ELSE <<>>)
    \o ValidateSummary(r)
    \o ValidateIssues(r.Issues, planLineCount)
    \o ValidateQuestions(r.Questions, planLineCount)
    \o ValidatePatches(r.Patches)

-----------------------------------------------------------------------------
(* cmd/plancritic/check.go: severity threshold filter, --fail-on *)

severityOrder(s) ==
    CASE s = SeverityCritical -> 0
      [] s = SeverityWarn -> 1
      [] OTHER -> 2

severityThresholdOrder(threshold) ==
    LET t == ToLower(threshold)
    IN CASE t = "critical" -> 0
         [] t = "warn" -> 1
         [] OTHER -> 2

\* filterBySeverity and filterQuestionsBySeverity: the loop body is the same.
FilterKeeps(x, threshold) ==
    SeverityValid(x.Severity)
    /\ severityOrder(x.Severity) <= severityThresholdOrder(threshold)

filterBySeverity(issues, threshold) ==
    SelectSeq(issues, LAMBDA iss : FilterKeeps(iss, threshold))

filterQuestionsBySeverity(questions, threshold) ==
    SelectSeq(questions, LAMBDA q : FilterKeeps(q, threshold))

verdictMeetsThreshold(verdict, failOn) ==
    LET f == ToLower(failOn)
        tl == CASE f = "executable" -> 0
                [] f = "clarifications" -> 1
                [] f \in {"not_executable", "not-executable", "critical"} -> 2
                [] OTHER -> 2
    IN CASE verdict = VerdictExecutable -> 0 >= tl
         [] verdict = VerdictWithClarifications -> 1 >= tl
         [] verdict = VerdictNotExecutable -> 2 >= tl
         [] OTHER -> FALSE

-----------------------------------------------------------------------------
(* internal/prompt/prompt.go *)

\* prompt.Build: the review prompt; of its text only the parts that vary
\* between runs of this model are kept.
Build(strict, maxIssues, maxQuestions) ==
    [kind |-> "review", strict |-> strict,
     maxIssues |-> maxIssues, maxQuestions |-> maxQuestions]

ErrorLines(errors) ==
    [k \in 1..Len(errors) |-> "- " \o errors[k].Path \o ": " \o errors[k].Message]

\* prompt.BuildRepair: header, one line per error, the original output, footer.
BuildRepair(originalOutput, errors) ==
    [kind |-> "repair",
     header |-> "The JSON output you returned has validation errors. Fix ONLY the errors listed below and return the corrected JSON.",
     errorLines |-> ErrorLines(errors),
     original |-> originalOutput,
     footer |-> "Return ONLY the corrected JSON. No prose."]

-----------------------------------------------------------------------------
(* encoding/json as runCheck uses it: a provider response is a text that is *)
(* either a JSON object (doc: its keys and values) or something else.  Keys *)
(* absent from an object leave the Go zero value in the struct.             *)

Get(obj, key, zero) == IF key \in DOMAIN obj THEN obj[key] ELSE zero

DecodeEvidence(o) ==
    [Source |-> Get(o, "source", ""), Path |-> Get(o, "path", ""),
     LineStart |-> Get(o, "line_start", 0), LineEnd |-> Get(o, "line_end", 0),
     Quote |-> Get(o, "quote", "")]

DecodeEvidenceList(os) == [k \in 1..Len(os) |-> DecodeEvidence(os[k])]

DecodeIssue(o) ==
    [ID |-> Get(o, "id", ""), Severity |-> Get(o, "severity", ""),
     Category |-> Get(o, "category", ""), Title |-> Get(o, "title", ""),
     Description |-> Get(o, "description", ""),
     Evidence |-> DecodeEvidenceList(Get(o, "evidence", <<>>)),
     Impact |-> Get(o, "impact", ""),
     Recommendation |-> Get(o, "recommendation", ""),
     Blocking |-> Get(o, "blocking", FALSE), Tags |-> Get(o, "tags", <<>>)]

DecodeQuestion(o) ==
    [ID |-> Get(o, "id", ""), Severity |-> Get(o, "severity", ""),
     Question |-> Get(o, "question", ""), WhyNeeded |-> Get(o, "why_needed", ""),
     Evidence |-> DecodeEvidenceList(Get(o, "evidence", <<>>))]

DecodePatch(o) ==
    [ID |-> Get(o, "id", ""), Type |-> Get(o, "type", ""),
     Title |-> Get(o, "title", ""), DiffUnified |-> Get(o, "diff_unified", "")]

DecodeSummary(o) ==
    [Verdict |-> Get(o, "verdict", ""), Score |-> Get(o, "score", 0),
     CriticalCount |-> Get(o, "critical_count", 0),
     WarnCount |-> Get(o, "warn_count", 0), InfoCount |-> Get(o, "info_count", 0)]

ZeroInput == [PlanFile |-> "", PlanHash |-> "", Profile |-> "", Strict |-> FALSE]
ZeroMeta == [Model |-> ""]

DecodeReview(o) ==
    LET issues == Get(o, "issues", <<>>)
        questions == Get(o, "questions", <<>>)
        patches == Get(o, "patches", <<>>)
    IN [Tool |-> Get(o, "tool", ""), Version |-> Get(o, "version", ""),
        Input |-> Get(o, "input", ZeroInput),
        Summary |-> DecodeSummary(Get(o, "summary", <<>>)),
        Questions |-> [k \in 1..Len(questions) |-> DecodeQuestion(questions[k])],
        Issues |-> [k \in 1..Len(issues) |-> DecodeIssue(issues[k])],
        Patches |-> [k \in 1..Len(patches) |-> DecodePatch(patches[k])],
        Meta |-> Get(o, "meta", ZeroMeta)]

ZeroReview == DecodeReview(<<>>)

\* json.Unmarshal([]byte(text), &rev) into a zero Review.
Unmarshal(text) ==
    IF text.syntax = "json" THEN [err |-> FALSE, rev |-> DecodeReview(text.doc)]
    ELSE [err |-> TRUE, rev |-> ZeroReview]

-----------------------------------------------------------------------------
(* The provider: what llm.Provider.Generate may return.  The texts are the  *)
(* responses of cmd/plancritic/check_test.go and variations of them.        *)

MaxIssuesLen == 2     \* longest issue list of the short responses
MaxExcess == 1        \* by how much the long responses exceed the output limits

\* len(p.Lines) of the plans reviewed; the evidence of the texts cites lines 1..3.
PlanLineCounts == {2, 3}

Ev(line) ==
    [source |-> "plan", path |-> "plan.md", line_start |-> line,
     line_end |-> line, quote |-> "q"]

JInfo ==
    [id |-> "ISSUE-0001", severity |-> SeverityInfo, category |-> "TEST_GAP",
     title |-> "t", description |-> "No tests.", evidence |-> <<Ev(3)>>,
     impact |-> "i", recommendation |-> "r", blocking |-> FALSE]

JCrit ==
    [id |-> "ISSUE-0002", severity |-> SeverityCritical,
     category |-> CategoryContradiction, title |-> "t",
     description |-> "The codebase uses Redis for caching.",
     evidence |-> <<Ev(2)>>, impact |-> "i", recommendation |-> "r",
     blocking |-> TRUE]

\* The issue of badResp in check_test.go.
JBogus ==
    [id |-> "I1", severity |-> "BOGUS", category |-> CategoryContradiction,
     title |-> "t", description |-> "d", evidence |-> <<Ev(1)>>]

JQuestion(n) ==
    [id |-> "Q-" \o ToString(n), severity |-> SeverityWarn, question |-> "q",
     why_needed |-> "w", evidence |-> <<Ev(1)>>]

JPatch ==
    [id |-> "PATCH-0001", type |-> PatchTypePlanTextEdit, title |-> "t",
     diff_unified |-> "--- a\n+++ b\n"]

JManyIssue(n) ==
    [id |-> "ISSUE-" \o ToString(1000 + n),
     severity |-> IF n % 3 = 0 THEN SeverityWarn ELSE SeverityInfo,
     category |-> CategoryAmbiguity, title |-> "t", description |-> "d",
     evidence |-> <<Ev(1 + (n % 2))>>, impact |-> "i", recommendation |-> "r",
     blocking |-> FALSE]

RECURSIVE SeqsUpTo(_, _)
SeqsUpTo(S, n) ==
    IF n = 0 THEN {<<>>}
    ELSE LET shorter == SeqsUpTo(S, n - 1)
         IN shorter \cup {Append(q, x) : q \in shorter, x \in S}

\* The summary a model writes that counts its own issues correctly; its
\* verdict is its own opinion.
JSummary(issues, verdict) ==
    LET decoded == [k \in 1..Len(issues) |-> DecodeIssue(issues[k])]
        s == ComputeSummary(decoded)
    IN [verdict |-> verdict, score |-> s.Score, critical_count |-> s.CriticalCount,
        warn_count |-> s.WarnCount, info_count |-> s.InfoCount]

JReview(issues, questions, verdict) ==
    [tool |-> "plancritic", version |-> "1.0",
     summary |-> JSummary(issues, verdict),
     issues |-> issues, questions |-> questions, patches |-> <<JPatch>>]

JsonText(doc) == [syntax |-> "json", doc |-> doc]

ProseText == [syntax |-> "prose", doc |-> <<>>]

ShortTexts ==
    {JsonText(JReview(is, <<JQuestion(1)>>, VerdictExecutable)) :
        is \in SeqsUpTo({JInfo, JCrit}, MaxIssuesLen)}

BadResp ==
    JsonText([summary |-> [verdict |-> VerdictExecutable],
              issues |-> <<JBogus>>, questions |-> <<>>])

WrongScoreText ==
    JsonText([JReview(<<JCrit>>, <<>>, VerdictNotExecutable)
                EXCEPT !.summary.score = 100])

LongTexts ==
    {JsonText(JReview([n \in 1..(DefaultMaxIssues + MaxExcess) |-> JManyIssue(n)],
                      <<JQuestion(1)>>, VerdictWithClarifications)),
     JsonText(JReview(<<JCrit>>,
                      [n \in 1..(DefaultMaxQuestions + MaxExcess) |-> JQuestion(n)],
                      VerdictNotExecutable)),
     JsonText(JReview(<<[JCrit EXCEPT !.id = "ISSUE-TRUNC"]>>,
                      [n \in 1..(DefaultMaxQuestions + MaxExcess) |-> JQuestion(n)],
                      VerdictNotExecutable))}

Texts == {ProseText, JsonText(<<>>), BadResp, WrongScoreText}
         \cup ShortTexts \cup LongTexts

NoText == [syntax |-> "none", doc |-> <<>>]

\* (string, error) as Generate returns it.
ProviderOutcomes ==
    {[err |-> TRUE, text |-> NoText]} \cup {[err |-> FALSE, text |-> t] : t \in Texts}

-----------------------------------------------------------------------------
(* cmd/plancritic/check.go: runCheck *)

version == "0.1.0"

\* The exit code of a schema validation failure.
SchemaExitCode == 5

Running == 0 - 1

Formats == {"json", "md", "yaml"}
Thresholds == {"info", "warn", "critical"}
FailOns == {"", "clarifications"}

\* Where the output goes: stdout and no patch file, or two files.
Destinations ==
    {[out |-> "", patchOut |-> ""], [out |-> "review.out", patchOut |-> "plan.patch"]}

FlagSets ==
    {[strict |-> s, severityThreshold |-> t, format |-> f, out |-> d.out,
      patchOut |-> d.patchOut, failOn |-> o] :
        s \in BOOLEAN, t \in Thresholds, f \in Formats, d \in Destinations,
        o \in FailOns}

\* json.MarshalIndent / render.Markdown: the text written, by the review it shows.
Rendered(format, r) == [format |-> format, review |-> r]

Nothing == <<>>

Init ==
    /\ flags \in FlagSets
    /\ planLines \in PlanLineCounts
    /\ pc = "load"
    /\ calls = 0
    /\ prompts = <<>>
    /\ result = NoText
    /\ repairResult = NoText
    /\ rev = ZeroReview
    /\ rev2 = ZeroReview
    /\ validationErrs = <<>>
    /\ validationErrs2 = <<>>
    /\ exitCode = Running
    /\ errMsg = ""
    /\ stderr = <<>>
    /\ stdout = Nothing
    /\ outFile = Nothing
    /\ patchFile = Nothing
    /\ call = Nothing

\* return exitError(code, msg) / return err / return nil, and main's os.Exit.
Exit(code, msg) ==
    /\ pc' = "exit"
    /\ exitCode' = code
    /\ errMsg' = msg
    /\ UNCHANGED call

Goto(next) ==
    /\ pc' = next
    /\ UNCHANGED <<exitCode, errMsg, call>>

\* Steps 1-5: load the plan, the context files and the profile, resolve the provider.
Load ==
    /\ pc = "load"
    /\ \E outcome \in {"ok", "plan", "context", "profile", "provider"} :
          CASE outcome = "ok" -> Goto("generate")
            [] outcome = "plan" -> Exit(3, "failed to load plan")
            [] outcome = "context" -> Exit(3, "failed to load context")
            [] outcome = "profile" -> Exit(3, "failed to load profile")
            [] outcome = "provider" -> Exit(4, "model provider error")
    /\ UNCHANGED <<flags, planLines, calls, prompts, result, repairResult, rev, rev2,
                   validationErrs, validationErrs2, stderr, stdout, outFile,
                   patchFile>>

\* Steps 6 and 8: build the prompt and call the provider.
Generate ==
    /\ pc = "generate"
    /\ prompts' = Append(prompts, Build(flags.strict, DefaultMaxIssues,
                                        DefaultMaxQuestions))
    /\ calls' = calls + 1
    /\ \E o \in ProviderOutcomes :
          IF o.err
          THEN /\ Exit(4, "LLM call failed")
               /\ UNCHANGED result
          ELSE /\ result' = o.text
               /\ Goto("parse")
    /\ UNCHANGED <<flags, planLines, repairResult, rev, rev2, validationErrs,
                   validationErrs2, stderr, stdout, outFile, patchFile>>

\* Parse with an exit code of its own for the parse error.
Parse_OtherCode ==
    /\ pc = "parse"
    /\ LET u == Unmarshal(result)
       IN IF u.err
          THEN /\ Exit(6, "failed to parse LLM response as JSON")
               /\ UNCHANGED rev
          ELSE /\ rev' = u.rev
               /\ Goto("validate")
    /\ UNCHANGED <<flags, planLines, calls, prompts, result, repairResult, rev2,
                   validationErrs, validationErrs2, stderr, stdout, outFile,
                   patchFile>>

\* Parse with the parse error sent to the repair call.
Parse_Repair ==
    /\ pc = "parse"
    /\ LET u == Unmarshal(result)
       IN IF u.err
          THEN /\ Goto("repair")
               /\ UNCHANGED rev
          ELSE /\ rev' = u.rev
               /\ Goto("validate")
    /\ UNCHANGED <<flags, planLines, calls, prompts, result, repairResult, rev2,
                   validationErrs, validationErrs2, stderr, stdout, outFile,
                   patchFile>>

\* Step 9: parse the response.
Parse ==
    /\ pc = "parse"
    /\ LET u == Unmarshal(result)
       IN IF u.err
          THEN /\ Exit(5, "failed to parse LLM response as JSON")
               /\ UNCHANGED rev
          ELSE /\ rev' = u.rev
               /\ Goto("validate")
    /\ UNCHANGED <<flags, planLines, calls, prompts, result, repairResult, rev2,
                   validationErrs, validationErrs2, stderr, stdout, outFile,
                   patchFile>>

\* Step 10: validate; errors lead to the repair call.
\* Step 10 that goes on to the post-processing whatever Validate returned.
ValidateFirst_Skip ==
    /\ pc = "validate"
    /\ validationErrs' = Validate(rev, planLines)
    /\ Goto("summarize")
    /\ UNCHANGED <<flags, planLines, calls, prompts, result, repairResult, rev, rev2,
                   validationErrs2, stderr, stdout, outFile, patchFile>>

ValidateFirst ==
    /\ pc = "validate"
    /\ validationErrs' = Validate(rev, planLines)
    /\ IF Len(validationErrs') > 0 THEN Goto("repair") ELSE Goto("summarize")
    /\ UNCHANGED <<flags, planLines, calls, prompts, result, repairResult, rev, rev2,
                   validationErrs2, stderr, stdout, outFile, patchFile>>

\* Repair with the provider error ignored.
Repair_IgnoreError ==
    /\ pc = "repair"
    /\ prompts' = Append(prompts, BuildRepair(result, validationErrs))
    /\ calls' = calls + 1
    /\ \E o \in ProviderOutcomes :
          /\ repairResult' = o.text
          /\ Goto("parse2")
    /\ UNCHANGED <<flags, planLines, result, rev, rev2, validationErrs,
                   validationErrs2, stderr, stdout, outFile, patchFile>>

Repair ==
    /\ pc = "repair"
    /\ prompts' = Append(prompts, BuildRepair(result, validationErrs))
    /\ calls' = calls + 1
    /\ \E o \in ProviderOutcomes :
          IF o.err
          THEN /\ Exit(4, "repair LLM call failed")
               /\ UNCHANGED repairResult
          ELSE /\ repairResult' = o.text
               /\ Goto("parse2")
    /\ UNCHANGED <<flags, planLines, result, rev, rev2, validationErrs,
                   validationErrs2, stderr, stdout, outFile, patchFile>>

\* ParseRepair going on to validation after a parse error.
ParseRepair_Continue ==
    /\ pc = "parse2"
    /\ rev2' = Unmarshal(repairResult).rev
    /\ Goto("validate2")
    /\ UNCHANGED <<flags, planLines, calls, prompts, result, repairResult, rev,
                   validationErrs, validationErrs2, stderr, stdout, outFile,
                   patchFile>>

ParseRepair ==
    /\ pc = "parse2"
    /\ LET u == Unmarshal(repairResult)
       IN IF u.err
          THEN /\ Exit(5, "repair response is not valid JSON")
               /\ UNCHANGED rev2
          ELSE /\ rev2' = u.rev
               /\ Goto("validate2")
    /\ UNCHANGED <<flags, planLines, calls, prompts, result, repairResult, rev,
                   validationErrs, validationErrs2, stderr, stdout, outFile,
                   patchFile>>

\* fmt.Fprintf(os.Stderr, "  %s\n", e) for every error.
StderrLines(errors) ==
    [k \in 1..Len(errors) |-> "  " \o errors[k].Path \o ": " \o errors[k].Message]

\* ValidateRepair printing the rejected review before it fails.
ValidateRepair_EmitUnvalidated ==
    /\ pc = "validate2"
    /\ validationErrs2' = Validate(rev2, planLines)
    /\ IF Len(validationErrs2') > 0
       THEN /\ stderr' = <<"Schema validation errors after repair:">>
                         \o StderrLines(validationErrs2')
            /\ stdout' = Rendered(flags.format, rev2)
            /\ Exit(SchemaExitCode, "LLM output failed schema validation after repair")
            /\ UNCHANGED rev
       ELSE /\ rev' = rev2
            /\ Goto("summarize")
            /\ UNCHANGED <<stderr, stdout>>
    /\ UNCHANGED <<flags, planLines, calls, prompts, result, repairResult, rev2,
                   validationErrs, outFile, patchFile>>

\* ValidateRepair asking the provider again after a failed repair.
ValidateRepair_Retry ==
    /\ pc = "validate2"
    /\ validationErrs2' = Validate(rev2, planLines)
    /\ IF Len(validationErrs2') > 0
       THEN /\ Goto("repair")
            /\ UNCHANGED <<rev, stderr>>
       ELSE /\ rev' = rev2
            /\ Goto("summarize")
            /\ UNCHANGED stderr
    /\ UNCHANGED <<flags, planLines, calls, prompts, result, repairResult, rev2,
                   validationErrs, stdout, outFile, patchFile>>

\* ValidateRepair without the assignment rev = rev2.
ValidateRepair_KeepFirst ==
    /\ pc = "validate2"
    /\ validationErrs2' = Validate(rev2, planLines)
    /\ IF Len(validationErrs2') > 0
       THEN /\ stderr' = <<"Schema validation errors after repair:">>
                         \o StderrLines(validationErrs2')
            /\ Exit(SchemaExitCode, "LLM output failed schema validation after repair")
       ELSE /\ Goto("summarize")
            /\ UNCHANGED stderr
    /\ UNCHANGED rev
    /\ UNCHANGED <<flags, planLines, calls, prompts, result, repairResult, rev2,
                   validationErrs, stdout, outFile, patchFile>>

\* ValidateRepair printing the errors of the first attempt.
ValidateRepair_FirstErrors ==
    /\ pc = "validate2"
    /\ validationErrs2' = Validate(rev2, planLines)
    /\ IF Len(validationErrs2') > 0
       THEN /\ stderr' = <<"Schema validation errors after repair:">>
                         \o StderrLines(validationErrs)
            /\ Exit(SchemaExitCode, "LLM output failed schema validation after repair")
            /\ UNCHANGED rev
       ELSE /\ rev' = rev2
            /\ Goto("summarize")
            /\ UNCHANGED stderr
    /\ UNCHANGED <<flags, planLines, calls, prompts, result, repairResult, rev2,
                   validationErrs, stdout, outFile, patchFile>>

ValidateRepair ==
    /\ pc = "validate2"
    /\ validationErrs2' = Validate(rev2, planLines)
    /\ IF Len(validationErrs2') > 0
       THEN /\ stderr' = <<"Schema validation errors after repair:">>
                         \o StderrLines(validationErrs2')
            /\ Exit(SchemaExitCode, "LLM output failed schema validation after repair")
            /\ UNCHANGED rev
       ELSE /\ rev' = rev2
            /\ Goto("summarize")
            /\ UNCHANGED stderr
    /\ UNCHANGED <<flags, planLines, calls, prompts, result, repairResult, rev2,
                   validationErrs, stdout, outFile, patchFile>>

\* Step 11, first statement: the summary of the model is overridden.
Summarize ==
    /\ pc = "summarize"
    /\ rev' = [rev EXCEPT !.Summary = ComputeSummary(rev.Issues)]
    /\ Goto("sort")
    /\ UNCHANGED <<flags, planLines, calls, prompts, result, repairResult, rev2,
                   validationErrs, validationErrs2, stderr, stdout, outFile,
                   patchFile>>

\* Step 11 without the sort.
SortStep_Skip ==
    /\ pc = "sort"
    /\ Goto("truncate")
    /\ UNCHANGED <<flags, planLines, calls, prompts, result, repairResult, rev, rev2,
                   validationErrs, validationErrs2, stderr, stdout, outFile,
                   patchFile>>

SortStep ==
    /\ pc = "sort"
    /\ rev' = [rev EXCEPT !.Issues = SortIssues(@), !.Questions = SortQuestions(@)]
    /\ Goto("truncate")
    /\ UNCHANGED <<flags, planLines, calls, prompts, result, repairResult, rev2,
                   validationErrs, validationErrs2, stderr, stdout, outFile,
                   patchFile>>

TruncateStep ==
    /\ pc = "truncate"
    /\ rev' = Truncate(rev, DefaultMaxIssues, DefaultMaxQuestions)
    /\ Goto("grounding")
    /\ UNCHANGED <<flags, planLines, calls, prompts, result, repairResult, rev2,
                   validationErrs, validationErrs2, stderr, stdout, outFile,
                   patchFile>>

\* The strict grounding post-check with its recomputation.
StrictGrounding(r, strict) ==
    IF strict
    THEN LET violations == CheckGrounding(r)
         IN IF Len(violations) > 0
            THEN LET d == ApplyGroundingDowngrades(r, violations)
                 IN [d EXCEPT !.Summary = ComputeSummary(d.Issues),
                              !.Issues = SortIssues(@)]
            ELSE r
    ELSE r

GroundingStep ==
    /\ pc = "grounding"
    /\ rev' = StrictGrounding(rev, flags.strict)
    /\ Goto("filter")
    /\ UNCHANGED <<flags, planLines, calls, prompts, result, repairResult, rev2,
                   validationErrs, validationErrs2, stderr, stdout, outFile,
                   patchFile>>

\* The filter without the recomputation of the summary.
FilterAndSummarize_Stale(r, threshold) ==
    [r EXCEPT !.Issues = filterBySeverity(@, threshold),
              !.Questions = filterQuestionsBySeverity(@, threshold)]

\* The severity threshold filter and the summary recomputed after it.
FilterAndSummarize(r, threshold) ==
    LET issues == filterBySeverity(r.Issues, threshold)
    IN [r EXCEPT !.Issues = issues,
                 !.Questions = filterQuestionsBySeverity(@, threshold),
                 !.Summary = ComputeSummary(issues)]

FilterStep ==
    /\ pc = "filter"
    /\ rev' = FilterAndSummarize(rev, flags.severityThreshold)
    /\ Goto("metadata")
    /\ UNCHANGED <<flags, planLines, calls, prompts, result, repairResult, rev2,
                   validationErrs, validationErrs2, stderr, stdout, outFile,
                   patchFile>>

\* Fill metadata.
WithMetadata(r, strict) ==
    [r EXCEPT !.Tool = "plancritic", !.Version = version,
              !.Input = [PlanFile |-> "plan.md", PlanHash |-> "sha256:",
                         Profile |-> "general", Strict |-> strict],
              !.Meta = [Model |-> "mock/(default)"]]

FillMetadata ==
    /\ pc = "metadata"
    /\ rev' = WithMetadata(rev, flags.strict)
    /\ Goto("output")
    /\ UNCHANGED <<flags, planLines, calls, prompts, result, repairResult, rev2,
                   validationErrs, validationErrs2, stderr, stdout, outFile,
                   patchFile>>

\* Step 12: an unknown format ends the run; a failed write returns a plain error.
Output ==
    /\ pc = "output"
    /\ IF flags.format \notin {"json", "md"}
       THEN /\ Exit(3, "unknown format")
            /\ UNCHANGED <<stdout, outFile>>
       ELSE IF flags.out # ""
       THEN \E written \in BOOLEAN :
              IF written
              THEN /\ outFile' = Rendered(flags.format, rev)
                   /\ Goto("patch")
                   /\ UNCHANGED stdout
              ELSE /\ Exit(1, "failed to write output")
                   /\ UNCHANGED <<stdout, outFile>>
       ELSE /\ stdout' = Rendered(flags.format, rev)
            /\ Goto("patch")
            /\ UNCHANGED outFile
    /\ UNCHANGED <<flags, planLines, calls, prompts, result, repairResult, rev, rev2,
                   validationErrs, validationErrs2, stderr, patchFile>>

\* patch.WritePatchFile: the diffs, each ended by a newline; no file without patches.
PatchText(patches) ==
    [k \in 1..Len(patches) |->
        LET d == patches[k].DiffUnified
        IN IF Len(d) > 0 /\ SubSeq(d, Len(d), Len(d)) = "\n" THEN d ELSE d \o "\n"]

\* Step 13.
PatchOutput ==
    /\ pc = "patch"
    /\ IF flags.patchOut # "" /\ Len(rev.Patches) > 0
       THEN \E written \in BOOLEAN :
              IF written
              THEN /\ patchFile' = PatchText(rev.Patches)
                   /\ Goto("failon")
              ELSE /\ Exit(1, "failed to write patches")
                   /\ UNCHANGED patchFile
       ELSE /\ Goto("failon")
            /\ UNCHANGED patchFile
    /\ UNCHANGED <<flags, planLines, calls, prompts, result, repairResult, rev, rev2,
                   validationErrs, validationErrs2, stderr, stdout, outFile>>

\* Step 14 and the final return nil.
FailOn ==
    /\ pc = "failon"
    /\ IF flags.failOn # "" /\ verdictMeetsThreshold(rev.Summary.Verdict, flags.failOn)
       THEN Exit(2, "verdict meets fail threshold")
       ELSE Exit(0, "")
    /\ UNCHANGED <<flags, planLines, calls, prompts, result, repairResult, rev, rev2,
                   validationErrs, validationErrs2, stderr, stdout, outFile,
                   patchFile>>

Next ==
    \/ Load
    \/ Generate
    \/ Parse
    \/ ValidateFirst
    \/ Repair
    \/ ParseRepair
    \/ ValidateRepair
    \/ Summarize
    \/ SortStep
    \/ TruncateStep
    \/ GroundingStep
    \/ FilterStep
    \/ FillMetadata
    \/ Output
    \/ PatchOutput
    \/ FailOn

Spec == Init /\ [][Next]_vars

-----------------------------------------------------------------------------
(* Properties of runCheck *)

FirstParsed == result # NoText /\ ~Unmarshal(result).err
FirstRev == Unmarshal(result).rev
FirstErrs == Validate(FirstRev, planLines)

SecondParsed == repairResult # NoText /\ ~Unmarshal(repairResult).err
SecondRev == Unmarshal(repairResult).rev
SecondErrs == Validate(SecondRev, planLines)

NothingEmitted == stdout = Nothing /\ outFile = Nothing /\ patchFile = Nothing

\* Step 11 and the metadata as one function of the validated review and the flags.
PostProcess(r, f) ==
    LET summarized == [r EXCEPT !.Summary = ComputeSummary(r.Issues)]
        sorted == [summarized EXCEPT !.Issues = SortIssues(@),
                                     !.Questions = SortQuestions(@)]
        truncated == Truncate(sorted, DefaultMaxIssues, DefaultMaxQuestions)
        grounded == StrictGrounding(truncated, f.strict)
        filtered == FilterAndSummarize(grounded, f.severityThreshold)
    IN WithMetadata(filtered, f.strict)

\* C1: in one run of runCheck the provider's Generate is invoked at most twice;
\* the second invocation happens only after the first response was parsed and
\* failed schema validation; there is never a third.
Thm_C1 ==
    /\ calls \in 0..2
    /\ Len(prompts) = calls
    /\ calls = 2 => FirstParsed /\ Len(FirstErrs) > 0

Wit_C1 ==
    /\ pc = "exit"
    /\ calls = 2
    /\ errMsg = "LLM output failed schema validation after repair"

\* C2: when the first response parses but fails validation, the provider is
\* re-invoked exactly once with BuildRepair(first raw response, first errors);
\* when that second response parses and validates the run does not fail, and
\* the post-processing and the output use the second response, never the first.
Thm_C2 ==
    /\ (FirstParsed /\ Len(FirstErrs) > 0 /\ pc \notin {"parse", "validate", "repair"})
         => /\ calls = 2
            /\ prompts[2] = BuildRepair(result, FirstErrs)
            /\ prompts[2].original = result
            /\ Len(prompts[2].errorLines) = Len(FirstErrs)
    /\ (calls = 2 /\ SecondParsed /\ SecondErrs = <<>>)
         => /\ pc = "exit" => exitCode \notin {4, 5}
            /\ pc = "summarize" => rev = SecondRev
            /\ \A o \in {stdout, outFile} :
                  o # Nothing => o.review = PostProcess(SecondRev, flags)
            /\ patchFile # Nothing => patchFile = PatchText(SecondRev.Patches)
            /\ (pc = "exit" /\ exitCode = 0) => (stdout # Nothing \/ outFile # Nothing)

Wit_C2 ==
    /\ pc = "exit"
    /\ exitCode = 0
    /\ calls = 2
    /\ stdout # Nothing
    /\ stdout.review.Issues # <<>>
    /\ FirstRev.Issues # SecondRev.Issues

\* C3: when the repair response fails to parse or fails validation, the run
\* ends with exit code 5, the validation errors printed are those of the second
\* attempt, and no provider invocation, post-processing or output follows.
SecondFailed ==
    /\ calls = 2
    /\ repairResult # NoText
    /\ Unmarshal(repairResult).err \/ Len(SecondErrs) > 0

Thm_C3 ==
    SecondFailed =>
        /\ pc \in {"parse2", "validate2", "exit"}
        /\ NothingEmitted
        /\ rev = FirstRev
        /\ pc = "exit" =>
              /\ exitCode = 5
              /\ IF Unmarshal(repairResult).err
                 THEN /\ errMsg = "repair response is not valid JSON"
                      /\ stderr = <<>>
                 ELSE /\ errMsg = "LLM output failed schema validation after repair"
                      /\ stderr = <<"Schema validation errors after repair:">>
                                  \o StderrLines(SecondErrs)

Wit_C3 ==
    /\ pc = "exit"
    /\ SecondFailed
    /\ SecondParsed
    /\ SecondErrs # FirstErrs

\* C4: when the first response cannot be parsed the run fails at once: no
\* second provider invocation, no repair prompt, exit with the parse error.
FirstUnparsable == result # NoText /\ Unmarshal(result).err

Thm_C4 ==
    FirstUnparsable =>
        /\ calls = 1
        /\ prompts = <<Build(flags.strict, DefaultMaxIssues, DefaultMaxQuestions)>>
        /\ pc \in {"parse", "exit"}
        /\ pc = "exit" =>
              /\ exitCode = 5
              /\ errMsg = "failed to parse LLM response as JSON"

Wit_C4 ==
    /\ pc = "exit"
    /\ FirstUnparsable
    /\ exitCode = 5

\* C5 as stated: a parse error on the first response is repaired: the provider
\* is invoked again with a repair prompt carrying the unparsable text.
Orig_C5 ==
    (pc = "exit" /\ FirstUnparsable) =>
        /\ calls = 2
        /\ Len(prompts) = 2
        /\ prompts[2].original = result

SecondUnparsable ==
    calls = 2 /\ repairResult # NoText /\ Unmarshal(repairResult).err

\* C5, amended: a parse error is terminal on attempt 1 as on attempt 2; it is
\* never repaired, and a repair prompt only ever carries a text that parsed.
Thm_C5 ==
    /\ \A k \in 1..Len(prompts) :
          prompts[k].kind = "repair" => ~Unmarshal(prompts[k].original).err
    /\ (FirstUnparsable /\ pc # "parse") => (pc = "exit" /\ exitCode = 5 /\ calls = 1)
    /\ (SecondUnparsable /\ pc # "parse2") => (pc = "exit" /\ exitCode = 5)

Wit_C5 ==
    /\ pc = "exit"
    /\ result = ProseText
    /\ repairResult = NoText
    /\ Len(prompts) = 1

ParseFailure ==
    /\ pc = "exit"
    /\ errMsg \in {"failed to parse LLM response as JSON",
                   "repair response is not valid JSON"}

SchemaFailure ==
    /\ pc = "exit"
    /\ errMsg = "LLM output failed schema validation after repair"

\* C6 as stated: a terminal parse failure and a terminal schema failure end the
\* process with different exit codes.
Orig_C6 ==
    /\ SchemaFailure => exitCode = SchemaExitCode
    /\ ParseFailure => exitCode # SchemaExitCode

\* C6, amended: a terminal parse failure and a terminal schema failure are told
\* apart by their message (and the error list on stderr) only; both end the
\* process with exit code 5, and nothing else does.
Thm_C6 ==
    /\ ParseFailure <=> (pc = "exit" /\ (FirstUnparsable \/ SecondUnparsable))
    /\ SchemaFailure <=> (pc = "exit" /\ calls = 2 /\ SecondParsed /\ Len(SecondErrs) > 0)
    /\ ParseFailure => (exitCode = 5 /\ stderr = <<>>)
    /\ SchemaFailure => (exitCode = 5 /\ Len(stderr) = 1 + Len(SecondErrs))
    /\ (pc = "exit" /\ exitCode = 5) => (ParseFailure \/ SchemaFailure)

Wit_C6 ==
    /\ ParseFailure
    /\ calls = 2
    /\ exitCode = SchemaExitCode

\* C7: a provider error ends the run at once with exit code 4, on the first
\* call and on the repair call: nothing is parsed, validated, post-processed
\* or written after it.
Thm_C7 ==
    /\ (calls = 1 /\ result = NoText) =>
          /\ pc = "exit" /\ exitCode = 4 /\ errMsg = "LLM call failed"
          /\ rev = ZeroReview /\ validationErrs = <<>>
          /\ stderr = <<>> /\ NothingEmitted
    /\ (calls = 2 /\ repairResult = NoText) =>
          /\ pc = "exit" /\ exitCode = 4 /\ errMsg = "repair LLM call failed"
          /\ rev = FirstRev /\ rev2 = ZeroReview /\ validationErrs2 = <<>>
          /\ stderr = <<>> /\ NothingEmitted

Wit_C7 ==
    /\ pc = "exit"
    /\ exitCode = 4
    /\ calls = 2
    /\ repairResult = NoText

\* C8: a run that ends in a parse or schema failure emits no review: nothing
\* goes to stdout, to the --out file or to the patch file; whatever is emitted
\* comes from a response that parsed and passed validation.
Thm_C8 ==
    /\ (pc = "exit" /\ exitCode = 5) =>
          /\ NothingEmitted
          /\ stderr \in {<<>>, <<"Schema validation errors after repair:">>
                               \o StderrLines(validationErrs2)}
    /\ ~NothingEmitted =>
          /\ FirstParsed
          /\ \/ calls = 1 /\ FirstErrs = <<>>
             \/ calls = 2 /\ SecondParsed /\ SecondErrs = <<>>

Wit_C8 ==
    /\ pc = "exit"
    /\ exitCode = 5
    /\ flags.out = "review.out"
    /\ flags.patchOut = "plan.patch"
    /\ SecondParsed
    /\ Len(SecondRev.Patches) > 0

\* C9: the Summary of every emitted review is ComputeSummary of the emitted
\* issues, whatever the model wrote and whatever truncation, grounding
\* downgrade and severity filter did to the list.
Thm_C9 ==
    \A o \in {stdout, outFile} :
        o # Nothing => o.review.Summary = ComputeSummary(o.review.Issues)

Wit_C9 ==
    /\ stdout # Nothing
    /\ calls = 1
    /\ flags.strict
    /\ stdout.review.Summary # FirstRev.Summary
    /\ Len(stdout.review.Issues) < Len(FirstRev.Issues)
    /\ Len(stdout.review.Issues) > 0

RedisText == "The codebase uses Redis for caching."

SingleCrit(r) ==
    /\ Len(r.Issues) = 1
    /\ r.Issues[1].Severity = SeverityCritical
    /\ r.Issues[1].Blocking
    /\ r.Issues[1].Description = RedisText

ValidatedRev == IF calls = 2 THEN SecondRev ELSE FirstRev

PipelineDone ==
    \/ pc \in {"metadata", "output", "patch", "failon"}
    \/ pc = "exit" /\ exitCode \in {0, 1, 2}
    \/ pc = "exit" /\ errMsg = "unknown format"

RedisIssues(r) == {i \in 1..Len(r.Issues) : r.Issues[i].Description = RedisText}

TruncCollision(r) ==
    /\ r.Issues[1].ID = TruncIssue.ID
    /\ Len(r.Questions) > DefaultMaxQuestions

-----------------------------------------------------------------------------
(* The functions of internal/review and internal/schema called by          *)
(* themselves, as their unit tests call them: call holds the arguments and, *)
(* once the function has returned, the result.  runCheck is not running.    *)

NotRunning ==
    /\ flags = CHOOSE f \in FlagSets : ~f.strict
    /\ planLines = 0
    /\ pc = "none"
    /\ calls = 0
    /\ prompts = <<>>
    /\ result = NoText
    /\ repairResult = NoText
    /\ rev = ZeroReview
    /\ rev2 = ZeroReview
    /\ validationErrs = <<>>
    /\ validationErrs2 = <<>>
    /\ exitCode = Running
    /\ errMsg = ""
    /\ stderr = <<>>
    /\ stdout = Nothing
    /\ outFile = Nothing
    /\ patchFile = Nothing

runVars == <<flags, planLines, pc, calls, prompts, result, repairResult, rev, rev2,
             validationErrs, validationErrs2, exitCode, errMsg, stderr, stdout,
             outFile, patchFile>>

\* n times the element x.
Repeat(x, n) == [k \in 1..n |-> x]

-----------------------------------------------------------------------------
(* ComputeScore and ComputeSummary on issue lists *)

MaxScoreLen == 3      \* longest issue list of mixed issues
MaxRepeat == 7        \* longest run of one and the same issue

\* An issue as far as score and summary read it; "BOGUS" is no severity.
ScoreItems ==
    {DecodeIssue([severity |-> sev, blocking |-> b]) :
        sev \in {SeverityInfo, SeverityWarn, SeverityCritical, "BOGUS"},
        b \in BOOLEAN}

ScoreLists ==
    SeqsUpTo(ScoreItems, MaxScoreLen)
    \cup {Repeat(x, n) \o q : x \in ScoreItems, n \in 1..MaxRepeat,
                              q \in SeqsUpTo(ScoreItems, 1)}
    \cup {Repeat(x, 2) \o <<y, z>> : x \in ScoreItems, y \in ScoreItems, z \in ScoreItems}

ScoreInit ==
    /\ NotRunning
    /\ call \in {[op |-> "input", issues |-> is, out |-> Nothing] : is \in ScoreLists}

CallComputeScore ==
    /\ call.op = "input"
    /\ call' = [call EXCEPT !.op = "ComputeScore", !.out = ComputeScore(call.issues)]
    /\ UNCHANGED runVars

CallComputeSummary ==
    /\ call.op = "input"
    /\ call' = [call EXCEPT !.op = "ComputeSummary", !.out = ComputeSummary(call.issues)]
    /\ UNCHANGED runVars

ScoreNext ==
    \/ CallComputeScore
    \/ CallComputeSummary

ScoreSpec == ScoreInit /\ [][ScoreNext]_vars

\* The number of issues of a severity.
NumberOf(issues, sev) ==
    Cardinality({i \in 1..Len(issues) : issues[i].Severity = sev})

Max(a, b) == IF a >= b THEN a ELSE b

\* C11: ComputeScore(issues) is max(0, 100 - 20 per CRITICAL - 7 per WARN - 2
\* per INFO), always within 0..100; an issue of unrecognized severity
\* contributes nothing; no issues give 100, one CRITICAL 80, one WARN 93, one
\* INFO 98, two CRITICAL with one WARN and one INFO 51, six CRITICAL 0.
Thm_C11 ==
    call.op = "ComputeScore" =>
        LET crit == NumberOf(call.issues, SeverityCritical)
            warn == NumberOf(call.issues, SeverityWarn)
            info == NumberOf(call.issues, SeverityInfo)
        IN /\ call.out = Max(0, 100 - 20 * crit - 7 * warn - 2 * info)
           /\ call.out \in 0..100
           /\ (crit = 0 /\ warn = 0 /\ info = 0) => call.out = 100
           /\ (crit = 1 /\ warn = 0 /\ info = 0) => call.out = 80
           /\ (crit = 0 /\ warn = 1 /\ info = 0) => call.out = 93
           /\ (crit = 0 /\ warn = 0 /\ info = 1) => call.out = 98
           /\ (crit = 2 /\ warn = 1 /\ info = 1) => call.out = 51
           /\ (crit = 6 /\ warn = 0 /\ info = 0) => call.out = 0

Wit_C11 ==
    /\ call.op = "ComputeScore"
    /\ NumberOf(call.issues, SeverityCritical) = 6
    /\ NumberOf(call.issues, "BOGUS") = 1
    /\ Len(call.issues) = 7
    /\ call.out = 0

\* C12: the verdict of ComputeSummary is NOT_EXECUTABLE exactly when some
\* issue is CRITICAL and blocking; otherwise EXECUTABLE_WITH_CLARIFICATIONS
\* exactly when some issue is CRITICAL or WARN; otherwise EXECUTABLE_AS_IS.  A
\* blocking flag on an issue that is not CRITICAL changes nothing.
Thm_C12 ==
    call.op = "ComputeSummary" =>
        LET is == call.issues
            blockingCritical ==
                \E i \in 1..Len(is) : is[i].Severity = SeverityCritical /\ is[i].Blocking
            criticalOrWarn ==
                \E i \in 1..Len(is) : is[i].Severity \in {SeverityCritical, SeverityWarn}
            unblocked == [i \in 1..Len(is) |->
                            IF is[i].Severity = SeverityCritical THEN is[i]
                            ELSE [is[i] EXCEPT !.Blocking = FALSE]]
        IN /\ call.out.Verdict = VerdictNotExecutable <=> blockingCritical
           /\ call.out.Verdict = VerdictWithClarifications
                 <=> (~blockingCritical /\ criticalOrWarn)
           /\ call.out.Verdict = VerdictExecutable
                 <=> (~blockingCritical /\ ~criticalOrWarn)
           /\ call.out.Verdict = ComputeSummary(unblocked).Verdict

Wit_C12 ==
    /\ call.op = "ComputeSummary"
    /\ call.out.Verdict = VerdictWithClarifications
    /\ \E i \in 1..Len(call.issues) :
          call.issues[i].Severity = SeverityWarn /\ call.issues[i].Blocking
    /\ \E i \in 1..Len(call.issues) :
          call.issues[i].Severity = SeverityCritical /\ ~call.issues[i].Blocking

-----------------------------------------------------------------------------
(* SortIssues and SortQuestions on lists *)

MaxSortLen == 3       \* longest list sorted

\* What the sort reads of an item: its severity and its evidence (none, or a
\* first entry at line 1 or 2, as the JSON document has it).
SortKeys ==
    {[sev |-> sev, ev |-> ev] :
        sev \in {SeverityInfo, SeverityWarn, SeverityCritical, "BOGUS"},
        ev \in {<<>>, <<[line_start |-> 1]>>, <<[line_start |-> 2]>>}}

\* The items carry their position in the list as their ID.
IssuesOf(keys) ==
    [i \in 1..Len(keys) |->
        DecodeIssue([id |-> ToString(i), severity |-> keys[i].sev,
                     evidence |-> keys[i].ev])]

QuestionsOf(keys) ==
    [i \in 1..Len(keys) |->
        DecodeQuestion([id |-> ToString(i), severity |-> keys[i].sev,
                        evidence |-> keys[i].ev])]

SortInit ==
    /\ NotRunning
    /\ call \in {[op |-> "input", items |-> <<>>, keys |-> ks, out |-> Nothing] :
                    ks \in SeqsUpTo(SortKeys, MaxSortLen)}

CallSortIssues ==
    /\ call.op = "input"
    /\ call' = [call EXCEPT !.op = "SortIssues", !.items = IssuesOf(call.keys),
                            !.out = SortIssues(IssuesOf(call.keys))]
    /\ UNCHANGED runVars

CallSortQuestions ==
    /\ call.op = "input"
    /\ call' = [call EXCEPT !.op = "SortQuestions", !.items = QuestionsOf(call.keys),
                            !.out = SortQuestions(QuestionsOf(call.keys))]
    /\ UNCHANGED runVars

SortNext ==
    \/ CallSortIssues
    \/ CallSortQuestions

SortSpec == SortInit /\ [][SortNext]_vars

\* The severity rank and the line of the sort key as the specification has them.
RankOf(x) ==
    CASE x.Severity = "CRITICAL" -> 0
      [] x.Severity = "WARN" -> 1
      [] x.Severity = "INFO" -> 2
      [] OTHER -> 3

LineOf(x) == IF x.Evidence = <<>> THEN 0 ELSE x.Evidence[1].LineStart

\* The position in the input of the item at position p of the output.
OriginOf(p) == CHOOSE i \in 1..Len(call.items) : call.items[i].ID = call.out[p].ID

\* C13: SortIssues and SortQuestions yield a permutation of the input in which
\* for every adjacent pair the severity rank does not decrease and, within one
\* rank, the line of the first evidence entry (0 without evidence) does not
\* decrease; items of equal rank and line keep their relative order.
Thm_C13 ==
    call.op \in {"SortIssues", "SortQuestions"} =>
        LET n == Len(call.items)
        IN /\ Len(call.out) = n
           /\ \A i \in 1..n : \E p \in 1..n : call.out[p] = call.items[i]
           /\ \A p \in 1..(n - 1) :
                 /\ RankOf(call.out[p]) <= RankOf(call.out[p + 1])
                 /\ RankOf(call.out[p]) = RankOf(call.out[p + 1])
                       => LineOf(call.out[p]) <= LineOf(call.out[p + 1])
                 /\ (/\ RankOf(call.out[p]) = RankOf(call.out[p + 1])
                     /\ LineOf(call.out[p]) = LineOf(call.out[p + 1]))
                       => OriginOf(p) < OriginOf(p + 1)

Wit_C13 ==
    /\ call.op = "SortIssues"
    /\ Len(call.out) = 3
    /\ call.out # call.items
    /\ RankOf(call.out[1]) = RankOf(call.out[2])
    /\ LineOf(call.out[1]) = 0
    /\ LineOf(call.out[2]) = 0
    /\ RankOf(call.out[3]) = 3

-----------------------------------------------------------------------------
(* Truncate on reviews *)

MaxOver == 5          \* by how much a list exceeds its limit at most

\* The limits handed to Truncate: none (the default applies), and given ones.
IssueLimits == {-1, 0, 1, 3, DefaultMaxIssues}
QuestionLimits == {-1, 0, 1, 3, DefaultMaxQuestions}

EffectiveMaxIssues(arg) == IF arg <= 0 THEN 50 ELSE arg
EffectiveMaxQuestions(arg) == IF arg <= 0 THEN 20 ELSE arg

\* The lengths of a list under a limit: short ones and those around the limit.
LengthsAround(limit) ==
    {n \in 0..(limit + MaxOver) : n <= MaxOver \/ n >= limit - 1}

\* A review of ni issues and nq questions, told apart by their IDs.
ReviewOf(ni, nq) ==
    [ZeroReview EXCEPT
        !.Issues = [i \in 1..ni |-> DecodeIssue([id |-> "ISSUE-" \o ToString(i)])],
        !.Questions = [i \in 1..nq |-> DecodeQuestion([id |-> "Q-" \o ToString(i)])]]

TruncateInit ==
    /\ NotRunning
    /\ call \in {[op |-> "input", r |-> ReviewOf(ni, nq), maxIssues |-> mi,
                  maxQuestions |-> mq, out |-> Nothing] :
                    mi \in IssueLimits, mq \in QuestionLimits,
                    ni \in UNION {LengthsAround(EffectiveMaxIssues(l)) : l \in IssueLimits},
                    nq \in UNION {LengthsAround(EffectiveMaxQuestions(l)) : l \in QuestionLimits}}

CallTruncate ==
    /\ call.op = "input"
    /\ call' = [call EXCEPT !.op = "Truncate",
                            !.out = Truncate(call.r, call.maxIssues, call.maxQuestions)]
    /\ UNCHANGED runVars

TruncateNext == CallTruncate

TruncateSpec == TruncateInit /\ [][TruncateNext]_vars

IssuesCut == Len(call.r.Issues) > EffectiveMaxIssues(call.maxIssues)
QuestionsCut == Len(call.r.Questions) > EffectiveMaxQuestions(call.maxQuestions)

\* C14: with more issues than maxIssues, Truncate leaves maxIssues + 1 issues,
\* the first maxIssues of the input and the ISSUE-TRUNC issue last; with more
\* questions than maxQuestions it leaves maxQuestions questions; 55 issues
\* and 25 questions under 50 / 20 give 51 and 20; 5 issues and 3 questions
\* are left as they are.
Orig_C14 ==
    call.op = "Truncate" =>
        LET mi == EffectiveMaxIssues(call.maxIssues)
            mq == EffectiveMaxQuestions(call.maxQuestions)
        IN /\ IssuesCut =>
                /\ Len(call.out.Issues) = mi + 1
                /\ SubSeq(call.out.Issues, 1, mi) = SubSeq(call.r.Issues, 1, mi)
                /\ call.out.Issues[mi + 1].ID = "ISSUE-TRUNC"
           /\ QuestionsCut => Len(call.out.Questions) = mq
           /\ (/\ Len(call.r.Issues) = 55 /\ Len(call.r.Questions) = 25
               /\ mi = 50 /\ mq = 20)
                 => Len(call.out.Issues) = 51 /\ Len(call.out.Questions) = 20
           /\ (/\ Len(call.r.Issues) = 5 /\ Len(call.r.Questions) = 3
               /\ mi = 50 /\ mq = 20)
                 => call.out = call.r

Orig_C16 ==
    call.op = "Truncate" =>
        /\ Len(call.out.Issues) <= EffectiveMaxIssues(call.maxIssues)
        /\ Len(call.out.Questions) <= EffectiveMaxQuestions(call.maxQuestions)

-----------------------------------------------------------------------------
(* CheckGrounding and ApplyGroundingDowngrades on reviews *)

MaxGroundLen == 2     \* longest issue list of a review
MaxViolations == 2    \* longest violation list handed in

\* A description that holds two of the phrases, in mixed case.
FabricatedText == "Looking at the code, The Codebase Uses X"

\* The issues: severity, description and tags vary; two issues may share an ID.
GroundKinds ==
    {[severity |-> SeverityCritical, description |-> FabricatedText, tags |-> <<>>],
     [severity |-> SeverityCritical, description |-> "clean", tags |-> <<>>],
     [severity |-> SeverityCritical, description |-> FabricatedText,
      tags |-> <<"UNVERIFIED">>],
     [severity |-> SeverityWarn, description |-> FabricatedText, tags |-> <<>>],
     [severity |-> SeverityWarn, description |-> "clean", tags |-> <<"UNVERIFIED">>],
     [severity |-> SeverityInfo, description |-> FabricatedText, tags |-> <<"x">>]}

GroundIssues ==
    {DecodeIssue([id |-> id] @@ k) : id \in {"A", "B"}, k \in GroundKinds}

\* The questions: none, or one whose text holds a phrase and whose ID is that
\* of an issue.
GroundQuestions ==
    {<<>>, <<DecodeQuestion([id |-> "A", question |-> "what is the project's goal"])>>}

GroundReviews ==
    {[ZeroReview EXCEPT !.Issues = is, !.Questions = qs] :
        is \in SeqsUpTo(GroundIssues, MaxGroundLen), qs \in GroundQuestions}

\* The violation lists handed in: "Z" is the ID of no issue.
ViolationLists ==
    SeqsUpTo({[IssueID |-> id, Field |-> "description", Phrase |-> "the codebase uses"] :
                id \in {"A", "B", "Z"}}, MaxViolations)

GroundingInit ==
    /\ NotRunning
    /\ call \in {[op |-> "input", r |-> r, violations |-> <<>>, first |-> Nothing,
                  out |-> Nothing] : r \in GroundReviews}

CallApplyGroundingDowngrades ==
    /\ call.op = "input"
    /\ \E vs \in ViolationLists :
          call' = [call EXCEPT !.op = "ApplyGroundingDowngrades", !.violations = vs,
                               !.out = ApplyGroundingDowngrades(call.r, vs)]
    /\ UNCHANGED runVars

\* violations := CheckGrounding(r); ApplyGroundingDowngrades(r, violations)
CallCheckAndApply ==
    /\ call.op = "input"
    /\ call' = [call EXCEPT !.op = "once", !.violations = CheckGrounding(call.r),
                            !.out = ApplyGroundingDowngrades(call.r, CheckGrounding(call.r))]
    /\ UNCHANGED runVars

\* The same pair once more, on the review the first pair left.
CallCheckAndApplyAgain ==
    /\ call.op = "once"
    /\ call' = [call EXCEPT !.op = "twice", !.first = call.out,
                            !.violations = CheckGrounding(call.out),
                            !.out = ApplyGroundingDowngrades(call.out,
                                                             CheckGrounding(call.out))]
    /\ UNCHANGED runVars

GroundingNext ==
    \/ CallApplyGroundingDowngrades
    \/ CallCheckAndApply
    \/ CallCheckAndApplyAgain

GroundingSpec == GroundingInit /\ [][GroundingNext]_vars

NamedIDs == {call.violations[k].IssueID : k \in 1..Len(call.violations)}

\* The issue the map of IDs holds for its ID: no later issue carries the ID.
HeldByMap(i) == \A j \in (i + 1)..Len(call.r.Issues) : call.r.Issues[j].ID # call.r.Issues[i].ID

NumberOfTag(tags, t) == Cardinality({k \in 1..Len(tags) : tags[k] = t})

\* C17: ApplyGroundingDowngrades processes each issue ID named in the
\* violations once, however many violations name it: the issue held for the ID
\* (the last one carrying it) gets the tag UNVERIFIED unless it carries it,
\* CRITICAL becomes WARN, WARN and INFO stay; every other issue and the rest of
\* the review stay as they are, and a violation naming no issue changes nothing.
Thm_C17 ==
    call.op = "ApplyGroundingDowngrades" =>
        /\ call.out = [call.r EXCEPT !.Issues = call.out.Issues]
        /\ Len(call.out.Issues) = Len(call.r.Issues)
        /\ \A i \in 1..Len(call.r.Issues) :
              LET old == call.r.Issues[i]
                  new == call.out.Issues[i]
              IN IF old.ID \in NamedIDs /\ HeldByMap(i)
                 THEN /\ new = [old EXCEPT !.Tags = new.Tags, !.Severity = new.Severity]
                      /\ new.Tags = IF NumberOfTag(old.Tags, "UNVERIFIED") > 0
                                    THEN old.Tags
                                    ELSE old.Tags \o <<"UNVERIFIED">>
                      /\ new.Severity = IF old.Severity = "CRITICAL" THEN "WARN"
                                        ELSE old.Severity
                 ELSE new = old

Wit_C17 ==
    /\ call.op = "ApplyGroundingDowngrades"
    /\ Len(call.violations) = 2
    /\ call.violations[1].IssueID = "A"
    /\ call.violations[2].IssueID = "A"
    /\ Len(call.r.Issues) = 2
    /\ call.r.Issues[1].ID = "A"
    /\ call.r.Issues[1].Severity = "CRITICAL"
    /\ call.r.Issues[1].Tags = <<>>
    /\ call.r.Issues[2].ID = "B"
    /\ call.out.Issues[1].Severity = "WARN"
    /\ call.out.Issues[1].Tags = <<"UNVERIFIED">>
    /\ call.out.Issues[2] = call.r.Issues[2]

\* C18: CheckGrounding followed by ApplyGroundingDowngrades, run twice, leaves
\* the review as running it once does; no issue that was CRITICAL or WARN ends
\* below WARN, and no issue carries the tag UNVERIFIED more than once.
Thm_C18 ==
    call.op = "twice" =>
        /\ call.out = call.first
        /\ \A i \in 1..Len(call.r.Issues) :
              /\ call.r.Issues[i].Severity \in {"CRITICAL", "WARN"}
                    => call.out.Issues[i].Severity \in {"CRITICAL", "WARN"}
              /\ NumberOfTag(call.out.Issues[i].Tags, "UNVERIFIED") <= 1

Wit_C18 ==
    /\ call.op = "twice"
    /\ Len(call.violations) >= 2
    /\ call.first # call.r
    /\ \E i \in 1..Len(call.r.Issues) :
          /\ call.r.Issues[i].Severity = "CRITICAL"
          /\ call.r.Issues[i].Tags = <<>>
          /\ call.out.Issues[i].Severity = "WARN"
          /\ call.out.Issues[i].Tags = <<"UNVERIFIED">>

\* C30: ApplyGroundingDowngrades(review, CheckGrounding(review)) changes only
\* issues whose own description, impact or recommendation holds a fabrication
\* phrase: a violation found in a question, also one whose ID is that of an
\* issue, or in another issue changes no issue; the call changes no question,
\* neither number nor order of the issues, and no field of an issue but
\* Severity and Tags.
Orig_C30 ==
    call.op = "once" =>
        /\ call.out.Questions = call.r.Questions
        /\ Len(call.out.Issues) = Len(call.r.Issues)
        /\ \A i \in 1..Len(call.r.Issues) :
              /\ call.out.Issues[i] =
                    [call.r.Issues[i] EXCEPT !.Severity = call.out.Issues[i].Severity,
                                             !.Tags = call.out.Issues[i].Tags]
              /\ call.out.Issues[i] # call.r.Issues[i]
                    => IssueViolations(call.r.Issues[i]) # <<>>

-----------------------------------------------------------------------------
(* Validate on reviews *)

MaxValidLen == 2      \* longest issue list of a valid review
MaxDelta == 1         \* by how much a summary number is off at most

\* validReview() of the tests with one to MaxValidLen issues of any severity, a
\* question and a patch.
ValidIssue(n, sev) ==
    DecodeIssue([id |-> "ISSUE-000" \o ToString(n), severity |-> sev,
                 category |-> CategoryContradiction, title |-> "Test issue",
                 description |-> "A test issue",
                 evidence |-> <<[source |-> "plan", path |-> "plan.md",
                                 line_start |-> 1, line_end |-> 2,
                                 quote |-> "some text"]>>,
                 impact |-> "big", recommendation |-> "fix it"])

ValidQuestion ==
    DecodeQuestion([id |-> "Q-0001", severity |-> SeverityWarn, question |-> "What?",
                    why_needed |-> "Because",
                    evidence |-> <<[source |-> "plan", path |-> "plan.md",
                                    line_start |-> 3, line_end |-> 4,
                                    quote |-> "other text"]>>])

validReview(sevs) ==
    LET issues == [n \in 1..Len(sevs) |-> ValidIssue(n, sevs[n])]
    IN [ZeroReview EXCEPT !.Tool = "plancritic", !.Version = "1.0",
                          !.Summary = ComputeSummary(issues), !.Issues = issues,
                          !.Questions = <<ValidQuestion>>,
                          !.Patches = <<DecodePatch(JPatch)>>]

ValidReviews ==
    {validReview(sevs) :
        sevs \in SeqsUpTo({SeverityInfo, SeverityWarn, SeverityCritical}, MaxValidLen)
                 \ {<<>>}}

\* The planLineCount handed to Validate: 0 skips the line range check.
ValidateLineCounts == {0, 100}

\* One change of one field: field is the Go name, name the one of the path.
FM(field, name, kind, value) ==
    [field |-> field, name |-> name, kind |-> kind, value |-> value]

TopChanges ==
    <<FM("Tool", "tool", "empty", ""), FM("Version", "version", "empty", ""),
      FM("Verdict", "summary.verdict", "empty", ""),
      FM("Verdict", "summary.verdict", "invalid", "INVALID")>>

IssueChanges ==
    <<FM("ID", "id", "empty", ""), FM("Severity", "severity", "empty", ""),
      FM("Severity", "severity", "invalid", "BOGUS"),
      FM("Category", "category", "empty", ""),
      FM("Category", "category", "invalid", "NOT_A_CATEGORY"),
      FM("Title", "title", "empty", ""), FM("Description", "description", "empty", ""),
      FM("Evidence", "evidence", "empty", <<>>)>>

QuestionChanges ==
    <<FM("ID", "id", "empty", ""), FM("Severity", "severity", "empty", ""),
      FM("Severity", "severity", "invalid", "BOGUS"),
      FM("Question", "question", "empty", ""),
      FM("WhyNeeded", "why_needed", "empty", ""),
      FM("Evidence", "evidence", "empty", <<>>)>>

PatchChanges ==
    <<FM("ID", "id", "empty", ""), FM("Type", "type", "empty", ""),
      FM("Type", "type", "invalid", "BOGUS"), FM("Title", "title", "empty", ""),
      FM("DiffUnified", "diff_unified", "empty", "")>>

EvidenceChanges(planLineCount) ==
    <<FM("Source", "source", "empty", ""), FM("Source", "source", "invalid", "repo"),
      FM("Path", "path", "empty", ""), FM("LineStart", "line_start", "invalid", 0),
      FM("LineEnd", "line_end", "invalid", 0), FM("Quote", "quote", "empty", "")>>
    \o (IF planLineCount > 0
        THEN <<FM("LineEnd", "line_end", "invalid", planLineCount + 1)>> ELSE <<>>)

\* A change placed in the review: list is the Go name of the list ("" for the
\* review itself), idx the entry, ev the evidence entry (0: the entry itself).
Placed(list, jsonList, idx, ev, c) ==
    [list |-> list, idx |-> idx, ev |-> ev, field |-> c.field, kind |-> c.kind,
     value |-> c.value,
     path |-> IF list = "" THEN c.name
              ELSE jsonList \o "[" \o ToString(idx - 1) \o "]"
                   \o (IF ev = 0 THEN ""
                       ELSE ".evidence[" \o ToString(ev - 1) \o "]")
                   \o "." \o c.name]

ListChanges(list, jsonList, items, changes, evChanges) ==
    Flatten([i \in 1..Len(items) |->
        [k \in 1..Len(changes) |-> Placed(list, jsonList, i, 0, changes[k])]
        \o (IF evChanges = <<>> THEN <<>>
            ELSE Flatten([j \in 1..Len(items[i].Evidence) |->
                    [k \in 1..Len(evChanges) |->
                        Placed(list, jsonList, i, j, evChanges[k])]]))])

\* An issue given the ID of another issue.
DuplicateChanges(issues) ==
    Flatten([i \in 1..Len(issues) |->
        Flatten([j \in 1..Len(issues) |->
            IF i = j THEN <<>>
            ELSE <<Placed("Issues", "issues", i, 0,
                          FM("ID", "id", "duplicate", issues[j].ID))>>])])

Changes(r, planLineCount) ==
    [k \in 1..Len(TopChanges) |-> Placed("", "", 0, 0, TopChanges[k])]
    \o ListChanges("Issues", "issues", r.Issues, IssueChanges,
                   EvidenceChanges(planLineCount))
    \o ListChanges("Questions", "questions", r.Questions, QuestionChanges,
                   EvidenceChanges(planLineCount))
    \o ListChanges("Patches", "patches", r.Patches, PatchChanges, <<>>)
    \o DuplicateChanges(r.Issues)

Change(r, m) ==
    IF m.list = ""
    THEN IF m.field = "Verdict" THEN [r EXCEPT !.Summary.Verdict = m.value]
         ELSE [r EXCEPT ![m.field] = m.value]
    ELSE IF m.ev = 0 THEN [r EXCEPT ![m.list][m.idx][m.field] = m.value]
         ELSE [r EXCEPT ![m.list][m.idx].Evidence[m.ev][m.field] = m.value]

NoChange == [list |-> "", idx |-> 0, ev |-> 0, field |-> "", kind |-> "none",
             value |-> "", path |-> ""]

ValidateInit ==
    /\ NotRunning
    /\ call \in {[op |-> "input", r |-> r, planLineCount |-> n, m |-> NoChange,
                  reviewed |-> r, out |-> Nothing] :
                    r \in ValidReviews, n \in ValidateLineCounts}

\* Validate(validReview(), n)
CallValidate ==
    /\ call.op = "input"
    /\ call' = [call EXCEPT !.op = "Validate",
                            !.out = Validate(call.r, call.planLineCount)]
    /\ UNCHANGED runVars

\* r := validReview(); one field changed; Validate(r, n)
CallValidateChanged ==
    /\ call.op = "input"
    /\ \E k \in 1..Len(Changes(call.r, call.planLineCount)) :
          LET m == Changes(call.r, call.planLineCount)[k]
          IN call' = [call EXCEPT !.op = "ValidateChanged", !.m = m,
                                  !.reviewed = Change(call.r, m),
                                  !.out = Validate(Change(call.r, m),
                                                   call.planLineCount)]
    /\ UNCHANGED runVars

\* r := validReview(); the numbers of r.Summary moved; Validate(r, n)
CallValidateSummary ==
    /\ call.op = "input"
    /\ \E ds, dc, dw, di \in (-MaxDelta)..MaxDelta :
          LET r == [call.r EXCEPT !.Summary.Score = @ + ds,
                                  !.Summary.CriticalCount = @ + dc,
                                  !.Summary.WarnCount = @ + dw,
                                  !.Summary.InfoCount = @ + di]
          IN call' = [call EXCEPT !.op = "ValidateSummary", !.reviewed = r,
                                  !.out = Validate(r, call.planLineCount)]
    /\ UNCHANGED runVars

ValidateNext ==
    \/ CallValidate
    \/ CallValidateChanged
    \/ CallValidateSummary

ValidateSpec == ValidateInit /\ [][ValidateNext]_vars

Validated == call.op \in {"Validate", "ValidateChanged", "ValidateSummary"}

\* The paths of the errors returned, in order.
OutPaths == [k \in 1..Len(call.out) |-> call.out[k].Path]

HasPath(path) == \E k \in 1..Len(call.out) : call.out[k].Path = path

ScoreOf(issues) ==
    Max(0, 100 - 20 * NumberOf(issues, "CRITICAL") - 7 * NumberOf(issues, "WARN")
             - 2 * NumberOf(issues, "INFO"))

CountPath(sev) ==
    CASE sev = "CRITICAL" -> "summary.critical_count"
      [] sev = "WARN" -> "summary.warn_count"
      [] sev = "INFO" -> "summary.info_count"

SeverityChange == call.m.list = "Issues" /\ call.m.ev = 0 /\ call.m.field = "Severity"

\* C19 as stated: Validate returns no error for a valid review, and after one
\* required field was set to an empty or invalid value exactly the error at
\* the path of that field.
Orig_C19 ==
    /\ call.op = "Validate" => call.out = <<>>
    /\ (call.op = "ValidateChanged" /\ call.m.kind \in {"empty", "invalid"})
          => OutPaths = <<call.m.path>>

\* C19: Validate returns no error for a valid review; after one required field
\* was set to an empty or invalid value it returns exactly the error at the
\* path of that field, except for the severity of an issue, where it also
\* reports the count of the former severity and, when the computed score
\* moved, the score; an issue ID made equal to another one is reported once, at
\* the later of the two issues.
Thm_C19 ==
    /\ call.op = "Validate" => call.out = <<>>
    /\ call.op = "ValidateChanged" =>
          IF SeverityChange
          THEN LET old == call.r.Issues[call.m.idx].Severity
               IN OutPaths =
                    (IF ScoreOf(call.reviewed.Issues) # ScoreOf(call.r.Issues)
                     THEN <<"summary.score">> ELSE <<>>)
                    \o <<CountPath(old), call.m.path>>
          ELSE IF call.m.kind = "duplicate"
               THEN LET other == CHOOSE j \in 1..Len(call.r.Issues) :
                                     j # call.m.idx /\ call.r.Issues[j].ID = call.m.value
                        later == Max(call.m.idx, other)
                    IN OutPaths = <<"issues[" \o ToString(later - 1) \o "].id">>
               ELSE OutPaths = <<call.m.path>>

Wit_C19 ==
    /\ call.op = "ValidateChanged"
    /\ call.m.path = "issues[0].severity"
    /\ call.m.value = "BOGUS"
    /\ Len(call.r.Issues) = 1
    /\ call.r.Issues[1].Severity = "CRITICAL"
    /\ OutPaths = <<"summary.score", "summary.critical_count", "issues[0].severity">>

\* C20: Validate reports an error at summary.score exactly when Summary.Score
\* differs from the computed score, and at summary.critical_count, warn_count,
\* info_count exactly when that count differs from the number of issues of
\* that severity; a review whose Summary is ComputeSummary(Issues) has no
\* error at a summary path.
Thm_C20 ==
    Validated =>
        LET r == call.reviewed
        IN /\ HasPath("summary.score") <=> r.Summary.Score # ScoreOf(r.Issues)
           /\ HasPath("summary.critical_count")
                 <=> r.Summary.CriticalCount # NumberOf(r.Issues, "CRITICAL")
           /\ HasPath("summary.warn_count")
                 <=> r.Summary.WarnCount # NumberOf(r.Issues, "WARN")
           /\ HasPath("summary.info_count")
                 <=> r.Summary.InfoCount # NumberOf(r.Issues, "INFO")
           /\ r.Summary = ComputeSummary(r.Issues)
                 => \A k \in 1..Len(call.out) :
                       call.out[k].Path \notin
                          {"summary.verdict", "summary.score", "summary.critical_count",
                           "summary.warn_count", "summary.info_count"}

Wit_C20 ==
    /\ call.op = "ValidateSummary"
    /\ call.reviewed.Summary.Score = call.r.Summary.Score
    /\ call.reviewed.Summary.InfoCount = call.r.Summary.InfoCount + 1
    /\ call.reviewed.Summary.WarnCount = call.r.Summary.WarnCount
    /\ call.reviewed.Summary.CriticalCount = call.r.Summary.CriticalCount
    /\ OutPaths = <<"summary.info_count">>

-----------------------------------------------------------------------------
(* Validate on reviews whose IDs repeat *)

MaxIDLen == 3         \* longest list of IDs

\* The IDs of the issues and of the questions: empty, and two that may repeat
\* within a list and across the two lists.
IDLists == SeqsUpTo({"", "A", "B"}, MaxIDLen)

ReviewWithIDs(issueIDs, questionIDs) ==
    LET issues == [n \in 1..Len(issueIDs) |->
                      [ValidIssue(n, SeverityWarn) EXCEPT !.ID = issueIDs[n]]]
    IN [ZeroReview EXCEPT
          !.Tool = "plancritic", !.Version = "1.0",
          !.Summary = ComputeSummary(issues), !.Issues = issues,
          !.Questions = [n \in 1..Len(questionIDs) |->
                            [ValidQuestion EXCEPT !.ID = questionIDs[n]]]]

IDInit ==
    /\ NotRunning
    /\ call \in {[op |-> "input", r |-> ReviewWithIDs(is, qs), out |-> Nothing] :
                    is \in IDLists, qs \in IDLists}

CallValidateIDs ==
    /\ call.op = "input"
    /\ call' = [call EXCEPT !.op = "Validate", !.out = Validate(call.r, 0)]
    /\ UNCHANGED runVars

IDNext == CallValidateIDs

IDSpec == IDInit /\ [][IDNext]_vars

\* The messages of the errors at a path, in order.
MessagesAt(path) ==
    LET At(e) == e.Path = path
        found == SelectSeq(call.out, At)
    IN [k \in 1..Len(found) |-> found[k].Message]

\* What Validate says of the ID of entry j of a list: nothing for the first
\* entry with a non-empty ID, "duplicate" for every later entry with that ID,
\* "required" for an empty ID.
IDErrorsAsSpecified(xs, jsonList) ==
    \A j \in 1..Len(xs) :
        MessagesAt(jsonList \o "[" \o ToString(j - 1) \o "].id") =
            IF xs[j].ID = "" THEN <<"required">>
            ELSE IF \E i \in 1..(j - 1) : xs[i].ID = xs[j].ID
                 THEN <<"duplicate ID: \"" \o xs[j].ID \o "\"">>
                 ELSE <<>>

\* C21: Validate flags a duplicate ID on the later occurrence only: an entry
\* whose non-empty ID occurred earlier in its list has the duplicate error at
\* its id path, the first entry with that ID has none; an empty ID has the
\* error "required" and never a duplicate error; the IDs of the issues and of
\* the questions are checked apart, so an ID shared by an issue and a question
\* is no duplicate.
Thm_C21 ==
    call.op = "Validate" =>
        /\ IDErrorsAsSpecified(call.r.Issues, "issues")
        /\ IDErrorsAsSpecified(call.r.Questions, "questions")
        /\ Len(call.out) =
              Cardinality({j \in 1..Len(call.r.Issues) :
                              MessagesAt("issues[" \o ToString(j - 1) \o "].id") # <<>>})
              + Cardinality({j \in 1..Len(call.r.Questions) :
                              MessagesAt("questions[" \o ToString(j - 1) \o "].id") # <<>>})

Wit_C21 ==
    /\ call.op = "Validate"
    /\ Len(call.r.Issues) = 3
    /\ call.r.Issues[1].ID = "A"
    /\ call.r.Issues[2].ID = ""
    /\ call.r.Issues[3].ID = "A"
    /\ Len(call.r.Questions) = 2
    /\ call.r.Questions[1].ID = "A"
    /\ call.r.Questions[2].ID = "A"
    /\ [k \in 1..Len(call.out) |-> call.out[k].Path]
          = <<"issues[1].id", "issues[2].id", "questions[1].id">>

-----------------------------------------------------------------------------
(* Validate on evidence entries *)

MaxLine == 3          \* largest line_start of an evidence entry

\* The plan lengths handed to Validate: 0 skips the range check.
EvidenceLineCounts == {0, 2}

EvidenceEntries ==
    {[Source |-> src, Path |-> "plan.md", LineStart |-> ls, LineEnd |-> le,
      Quote |-> "some text"] :
        src \in {"plan", "context", "repo"}, ls \in 0..MaxLine, le \in 0..(MaxLine + 1)}

\* validReview(), the evidence of its issue and question at line 1, with the
\* entry as the second evidence entry of the issue or of the question.
ReviewWithEvidence(ev, inQuestion) ==
    LET first == [Source |-> "plan", Path |-> "plan.md", LineStart |-> 1,
                  LineEnd |-> 1, Quote |-> "some text"]
        r == validReview(<<SeverityCritical>>)
    IN [r EXCEPT !.Issues[1].Evidence = IF inQuestion THEN <<first>> ELSE <<first, ev>>,
                 !.Questions[1].Evidence = IF inQuestion THEN <<first, ev>>
                                           ELSE <<first>>]

EvidenceInit ==
    /\ NotRunning
    /\ call \in {[op |-> "input", ev |-> ev, inQuestion |-> q, planLineCount |-> n,
                  out |-> Nothing] :
                    ev \in EvidenceEntries, q \in BOOLEAN, n \in EvidenceLineCounts}

CallValidateEvidence ==
    /\ call.op = "input"
    /\ call' = [call EXCEPT !.op = "Validate",
                            !.out = Validate(ReviewWithEvidence(call.ev, call.inQuestion),
                                             call.planLineCount)]
    /\ UNCHANGED runVars

EvidenceNext == CallValidateEvidence

EvidenceSpec == EvidenceInit /\ [][EvidenceNext]_vars

EntryPath == (IF call.inQuestion THEN "questions[0]" ELSE "issues[0]") \o ".evidence[1]"

HasError(path, message) ==
    \E k \in 1..Len(call.out) : call.out[k] = [Path |-> path, Message |-> message]

RangeMessage == "exceeds plan line count (" \o ToString(call.planLineCount) \o ")"

\* C22: for an evidence entry of an issue or a question, Validate reports the
\* plan range error at its line_end exactly when planLineCount > 0, Source is
\* "plan" and LineEnd > planLineCount: never with planLineCount = 0, never for
\* Source "context"; the errors for LineStart < 1 and for LineEnd < LineStart
\* do not depend on planLineCount.
Thm_C22 ==
    call.op = "Validate" =>
        /\ HasError(EntryPath \o ".line_end", RangeMessage)
              <=> (/\ call.planLineCount > 0
                   /\ call.ev.Source = "plan"
                   /\ call.ev.LineEnd > call.planLineCount)
        /\ HasError(EntryPath \o ".line_start", "must be >= 1") <=> call.ev.LineStart < 1
        /\ HasError(EntryPath \o ".line_end", "must be >= line_start")
              <=> call.ev.LineEnd < call.ev.LineStart
        /\ \A k \in 1..Len(call.out) :
              call.out[k].Path \in {EntryPath \o ".line_end", EntryPath \o ".line_start",
                                    EntryPath \o ".source"}

Wit_C22 ==
    /\ call.op = "Validate"
    /\ call.planLineCount = 2
    /\ call.ev.Source = "plan"
    /\ call.ev.LineStart = 1
    /\ call.ev.LineEnd = 3
    /\ call.inQuestion
    /\ call.out = <<[Path |-> "questions[0].evidence[1].line_end",
                     Message |-> "exceeds plan line count (2)"]>>

-----------------------------------------------------------------------------
(* filterBySeverity and filterQuestionsBySeverity on lists *)

MaxFilterLen == 3     \* longest list filtered

\* The severities of the items of a list; "BOGUS" is no severity.
FilterLists ==
    SeqsUpTo({SeverityCritical, SeverityWarn, SeverityInfo, "BOGUS"}, MaxFilterLen)

FilterInit ==
    /\ NotRunning
    /\ call \in {[op |-> "input", sevs |-> sevs, threshold |-> t, items |-> <<>>,
                  out |-> Nothing] : sevs \in FilterLists, t \in Thresholds}

CallFilterBySeverity ==
    /\ call.op = "input"
    /\ LET issues == [n \in 1..Len(call.sevs) |->
                        DecodeIssue([id |-> ToString(n), severity |-> call.sevs[n]])]
       IN call' = [call EXCEPT !.op = "filterBySeverity", !.items = issues,
                               !.out = filterBySeverity(issues, call.threshold)]
    /\ UNCHANGED runVars

CallFilterQuestionsBySeverity ==
    /\ call.op = "input"
    /\ LET questions == [n \in 1..Len(call.sevs) |->
                           DecodeQuestion([id |-> ToString(n),
                                           severity |-> call.sevs[n]])]
       IN call' = [call EXCEPT !.op = "filterQuestionsBySeverity",
                               !.items = questions,
                               !.out = filterQuestionsBySeverity(questions,
                                                                 call.threshold)]
    /\ UNCHANGED runVars

FilterNext ==
    \/ CallFilterBySeverity
    \/ CallFilterQuestionsBySeverity

FilterSpec == FilterInit /\ [][FilterNext]_vars

ThresholdRank(t) ==
    CASE t = "critical" -> 0
      [] t = "warn" -> 1
      [] OTHER -> 2

\* The items of the input that the statement keeps, in input order.
KeptAsStated(items, threshold) ==
    LET Keep(x) ==
          \/ x.Severity \notin {"CRITICAL", "WARN", "INFO"}
          \/ RankOf(x) <= ThresholdRank(threshold)
    IN SelectSeq(items, Keep)

\* C23: filterBySeverity keeps an issue whose severity is no valid value
\* whatever the threshold, drops the valid issues below the threshold and
\* leaves the kept issues in their order.
Orig_C23 ==
    call.op = "filterBySeverity" => call.out = KeptAsStated(call.items, call.threshold)

-----------------------------------------------------------------------------
(* runCheck with the values of --fail-on *)

\* The values of --fail-on: recognized ones, in either case, and one that is
\* not.
FailOnValues == {"executable", "not_executable", "CRITICAL", "bogus_value"}

FailOnFlagSets ==
    {[strict |-> s, severityThreshold |-> "info", format |-> "json", out |-> d.out,
      patchOut |-> d.patchOut, failOn |-> o] :
        s \in BOOLEAN, d \in Destinations, o \in FailOnValues}

FailOnInit ==
    /\ flags \in FailOnFlagSets
    /\ planLines \in PlanLineCounts
    /\ pc = "load"
    /\ calls = 0
    /\ prompts = <<>>
    /\ result = NoText
    /\ repairResult = NoText
    /\ rev = ZeroReview
    /\ rev2 = ZeroReview
    /\ validationErrs = <<>>
    /\ validationErrs2 = <<>>
    /\ exitCode = Running
    /\ errMsg = ""
    /\ stderr = <<>>
    /\ stdout = Nothing
    /\ outFile = Nothing
    /\ patchFile = Nothing
    /\ call = Nothing

FailOnSpec == FailOnInit /\ [][Next]_vars

Unrecognized(failOn) ==
    failOn \notin {"", "executable", "clarifications", "not_executable",
                   "not-executable", "critical", "CRITICAL"}

\* C24: an unrecognized value of --fail-on is an input error: a run that got
\* as far as emitting the review ends with exit code 3 and never treats the
\* value as a threshold level.
Orig_C24 ==
    (pc = "exit" /\ Unrecognized(flags.failOn) /\ (stdout # Nothing \/ outFile # Nothing))
        => exitCode = 3

-----------------------------------------------------------------------------
(* runCheck with the flags the post-processing reads: --strict and          *)
(* --severity-threshold; JSON to stdout, no --fail-on.                      *)

PipelineFlagSets ==
    {[strict |-> s, severityThreshold |-> t, format |-> "json", out |-> "",
      patchOut |-> "", failOn |-> ""] : s \in BOOLEAN, t \in Thresholds}

PipelineInit ==
    /\ flags \in PipelineFlagSets
    /\ planLines \in PlanLineCounts
    /\ pc = "load"
    /\ calls = 0
    /\ prompts = <<>>
    /\ result = NoText
    /\ repairResult = NoText
    /\ rev = ZeroReview
    /\ rev2 = ZeroReview
    /\ validationErrs = <<>>
    /\ validationErrs2 = <<>>
    /\ exitCode = Running
    /\ errMsg = ""
    /\ stderr = <<>>
    /\ stdout = Nothing
    /\ outFile = Nothing
    /\ patchFile = Nothing
    /\ call = Nothing

PipelineSpec == PipelineInit /\ [][Next]_vars

\* The steps from the post-processing to the exit code.
PostSteps == {"summarize", "sort", "truncate", "grounding", "filter", "metadata",
              "output", "patch", "failon"}

\* C25: the post-processing and the output are reached only with a review for
\* which Validate(review, plan line count) returned no error, the first
\* response or the repair response; a review that failed validation reaches no
\* post-processing step, and what is emitted is that review post-processed.
Thm_C25 ==
    /\ (pc \in PostSteps \/ ~NothingEmitted) =>
          /\ FirstParsed
          /\ calls = 1 => FirstErrs = <<>>
          /\ calls = 2 => (Len(FirstErrs) > 0 /\ SecondParsed /\ SecondErrs = <<>>)
          /\ Validate(ValidatedRev, planLines) = <<>>
          /\ pc = "summarize" => rev = ValidatedRev
          /\ stdout # Nothing => stdout.review = PostProcess(ValidatedRev, flags)
    /\ (FirstParsed /\ Len(FirstErrs) > 0 /\ calls = 1) => pc \notin PostSteps
    /\ (SecondParsed /\ Len(SecondErrs) > 0) => pc \notin PostSteps

Wit_C25 ==
    /\ pc = "sort"
    /\ calls = 2
    /\ Len(FirstErrs) > 0
    /\ rev # FirstRev
    /\ Len(rev.Issues) > 1


\* The truncation notice was appended to the validated review.
Noticed ==
    \/ Len(ValidatedRev.Issues) > 50
    \/ Len(ValidatedRev.Questions) > 20

\* The issues of the review in hand that truncation retained.
Retained ==
    IF Noticed THEN SubSeq(rev.Issues, 1, Len(rev.Issues) - 1) ELSE rev.Issues

\* The issues of the validated review that truncation dropped.
Dropped ==
    {i \in 1..Len(ValidatedRev.Issues) :
        \A k \in 1..Len(Retained) : Retained[k].ID # ValidatedRev.Issues[i].ID}

KeyLeq(a, b) ==
    \/ RankOf(a) < RankOf(b)
    \/ RankOf(a) = RankOf(b) /\ LineOf(a) <= LineOf(b)

\* C26: in runCheck Truncate runs after SortIssues and SortQuestions: once it
\* has run, the retained issues are a prefix of the sorted list of the
\* validated issues, and every dropped issue has a sort key (severity rank,
\* line of the first evidence) not smaller than that of every retained issue.
Thm_C26 ==
    /\ pc = "truncate" =>
          /\ rev.Issues = SortIssues(ValidatedRev.Issues)
          /\ rev.Questions = SortQuestions(ValidatedRev.Questions)
    /\ pc = "grounding" =>
          /\ Retained = SubSeq(SortIssues(ValidatedRev.Issues), 1, Len(Retained))
          /\ \A p \in 1..(Len(Retained) - 1) : KeyLeq(Retained[p], Retained[p + 1])
          /\ \A i \in Dropped : \A k \in 1..Len(Retained) :
                KeyLeq(Retained[k], ValidatedRev.Issues[i])
          /\ Len(Retained) + Cardinality(Dropped) = Len(ValidatedRev.Issues)

Wit_C26 ==
    /\ pc = "grounding"
    /\ Len(ValidatedRev.Issues) > 50
    /\ Len(Retained) = 49
    /\ Dropped # {}
    /\ Retained # SubSeq(ValidatedRev.Issues, 1, 49)
    /\ \E i \in Dropped : i <= 49


\* The reviews emitted so far.
Emitted == {o.review : o \in {o \in {stdout, outFile} : o # Nothing}}

\* C27: in every review emitted by runCheck the issues are in order of
\* non-decreasing severity rank and, within a rank, of non-decreasing line of
\* the first evidence, also after truncation appended its notice, after
\* strict-mode downgrades and after the severity filter.
Orig_C27 ==
    \A r \in Emitted :
        \A p \in 1..(Len(r.Issues) - 1) : KeyLeq(r.Issues[p], r.Issues[p + 1])

\* C28: every review emitted by runCheck passes Validate with the plan line
\* count; its issue IDs are pairwise distinct, also when the notice with the
\* ID ISSUE-TRUNC was appended, and every issue has a valid severity, a valid
\* category and at least one evidence entry.
Orig_C28 ==
    \A r \in Emitted :
        /\ Validate(r, planLines) = <<>>
        /\ \A i, j \in 1..Len(r.Issues) : i # j => r.Issues[i].ID # r.Issues[j].ID
        /\ \A i \in 1..Len(r.Issues) :
              /\ r.Issues[i].Severity \in {"CRITICAL", "WARN", "INFO"}
              /\ CategoryValid(r.Issues[i].Category)
              /\ Len(r.Issues[i].Evidence) >= 1

\* C29: in strict mode no issue of an emitted review whose description, impact
\* or recommendation holds a fabrication phrase is CRITICAL, and every such
\* issue carries the tag UNVERIFIED, truncated responses included.
Orig_C29 ==
    flags.strict =>
        \A r \in Emitted :
            \A i \in 1..Len(r.Issues) :
                IssueViolations(r.Issues[i]) # <<>> =>
                    /\ r.Issues[i].Severity # "CRITICAL"
                    /\ NumberOfTag(r.Issues[i].Tags, "UNVERIFIED") >= 1

====
